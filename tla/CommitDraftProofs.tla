-------------------------- MODULE CommitDraftProofs --------------------------
(***************************************************************************)
(* The invariant of CommitDraft for any number of concurrent calls, users, *)
(* sessions and requests; what holds in addition with a single server      *)
(* process; and the refinement of TripStore.                               *)
(***************************************************************************)
EXTENDS CommitDraft, TLAPS

(* Write is the only action that touches the tables. *)
LEMMA WhoWrites ==
  ASSUME [Next]_vars
  PROVE  UNCHANGED tables \/ \E c \in Call : Write(c)
  BY DEF Next, Statement, vars, Begin, FindByEvent, FindByProposal, FindApproval, CheckUser,
         ReadTrip, ReadSession, WriteRefused, FindByEventAgain, FindByProposalAgain, Replay,
         Answer, DatabaseError, Crash, Lookup

(* What one transaction does to the three tables. *)
LEMMA WriteEffect ==
  ASSUME TypeOK, Requested, Carried, NEW c \in Call, Write(c)
  PROVE  /\ arg[c] \in Request /\ TripOf(c) \in Trip
         /\ trips' = [trips EXCEPT ![TripOf(c)] = NewRow(c)]
         /\ NewRow(c) \in Row /\ NewRow(c) # NoTrip
         /\ NewRow(c).current = arg[c].number /\ NewRow(c).proposal = arg[c].proposal
  <1>1. arg[c] \in Request /\ TripOf(c) \in Trip
    BY RequestAssumption DEF Write, Requested, Trip, TripOf
  <1>2. trips' = [trips EXCEPT ![TripOf(c)] = NewRow(c)]
    BY DEF Write
  <1>3. NewRow(c).current = arg[c].number /\ NewRow(c).proposal = arg[c].proposal
    BY DEF NewRow
  <1>4. NewRow(c) # NoTrip
    BY <1>1, <1>3, RequestAssumption DEF NoTrip
  <1>5. NewRow(c) \in Row
    <2>1. CASE seen[c] # NoTrip /\ seen[c].hotel = arg[c].hotel
      <3>1. trips[TripOf(c)] \in Row
        BY <1>1, <2>1 DEF TypeOK, Write, Carried
      <3> QED
        BY <1>1, <2>1, <3>1, RequestAssumption DEF NewRow, Row
    <2>2. CASE ~(seen[c] # NoTrip /\ seen[c].hotel = arg[c].hotel)
      BY <1>1, <2>2, RequestAssumption DEF NewRow, Row
    <2> QED
      BY <2>1, <2>2
  <1> QED
    BY <1>1, <1>2, <1>3, <1>4, <1>5

(* Every step keeps the types. *)
LEMMA TypeStep ==
  ASSUME TypeOK, Requested, Carried, [Next]_vars
  PROVE  TypeOK'
  <1> USE RequestAssumption DEF Goto, tables, Running, Ended
  <1>1. ASSUME NEW c \in Call, NEW r \in Request, Begin(c, r) PROVE TypeOK'
    BY <1>1 DEF Begin, TypeOK
  <1>2. ASSUME NEW c \in Call, FindByEvent(c) PROVE TypeOK'
    BY <1>2 DEF FindByEvent, Lookup, SameEvent, TypeOK, Approval
  <1>3. ASSUME NEW c \in Call, FindByProposal(c) PROVE TypeOK'
    BY <1>3 DEF FindByProposal, TypeOK
  <1>4. ASSUME NEW c \in Call, FindApproval(c) PROVE TypeOK'
    BY <1>4 DEF FindApproval, Lookup, SameProposal, TypeOK
  <1>5. ASSUME NEW c \in Call, CheckUser(c) PROVE TypeOK'
    BY <1>5 DEF CheckUser, TypeOK
  <1>6. ASSUME NEW c \in Call, ReadTrip(c) PROVE TypeOK'
    <2>1. trips[TripOf(c)] \in Row \cup {NoTrip}
      BY <1>6 DEF ReadTrip, TypeOK, Requested, Trip, TripOf
    <2> QED
      BY <1>6, <2>1 DEF ReadTrip, TypeOK, Consider
  <1>7. ASSUME NEW c \in Call, ReadSession(c) PROVE TypeOK'
    <2>1. trips[TripOf(c)] \in Row \cup {NoTrip}
      BY <1>7 DEF ReadSession, TypeOK, Requested, Trip, TripOf
    <2> QED
      BY <1>7, <2>1 DEF ReadSession, TypeOK, Consider
  <1>8. ASSUME NEW c \in Call, Write(c) PROVE TypeOK'
    <2>1. arg[c] \in Request /\ TripOf(c) \in Trip /\ NewRow(c) \in Row
      BY <1>8, WriteEffect
    <2> QED
      BY <1>8, <2>1 DEF Write, TypeOK, Trip, TripOf, Version, Approval
  <1>9. ASSUME NEW c \in Call, WriteRefused(c) PROVE TypeOK'
    BY <1>9 DEF WriteRefused, Allowed, SameEvent, TypeOK
  <1>10. ASSUME NEW c \in Call, FindByEventAgain(c) PROVE TypeOK'
    BY <1>10 DEF FindByEventAgain, Lookup, SameEvent, TypeOK
  <1>11. ASSUME NEW c \in Call, FindByProposalAgain(c) PROVE TypeOK'
    BY <1>11 DEF FindByProposalAgain, Lookup, SameProposal, TypeOK
  <1>12. ASSUME NEW c \in Call, Replay(c) PROVE TypeOK'
    BY <1>12 DEF Replay, TypeOK
  <1>13. ASSUME NEW c \in Call, Answer(c) PROVE TypeOK'
    BY <1>13 DEF Answer, TypeOK
  <1>14. ASSUME NEW c \in Call, DatabaseError(c) PROVE TypeOK'
    BY <1>14 DEF DatabaseError, TypeOK
  <1>15. ASSUME NEW c \in Call, Crash(c) PROVE TypeOK'
    BY <1>15 DEF Crash, TypeOK
  <1>16. CASE UNCHANGED vars
    BY <1>16 DEF vars, TypeOK
  <1> QED
    BY <1>1, <1>2, <1>3, <1>4, <1>5, <1>6, <1>7, <1>8, <1>9, <1>10, <1>11, <1>12, <1>13,
        <1>14, <1>15, <1>16 DEF Next, Statement

(* What is on record was requested. *)
LEMMA RequestedStep ==
  ASSUME TypeOK, Requested, [Next]_vars
  PROVE  Requested'
  <1> USE RequestAssumption DEF TypeOK, Requested, Goto, tables, Running, Ended
  <1>1. ASSUME NEW c \in Call, NEW r \in Request, Begin(c, r) PROVE Requested'
    BY <1>1 DEF Begin
  <1>2. ASSUME NEW c \in Call, FindByEvent(c) PROVE Requested'
    BY <1>2 DEF FindByEvent, Lookup, SameEvent
  <1>3. ASSUME NEW c \in Call, FindByProposal(c) PROVE Requested'
    BY <1>3 DEF FindByProposal
  <1>4. ASSUME NEW c \in Call, FindApproval(c) PROVE Requested'
    BY <1>4 DEF FindApproval, Lookup, SameProposal
  <1>5. ASSUME NEW c \in Call, CheckUser(c) PROVE Requested'
    BY <1>5 DEF CheckUser
  <1>6. ASSUME NEW c \in Call, ReadTrip(c) PROVE Requested'
    BY <1>6 DEF ReadTrip, Consider
  <1>7. ASSUME NEW c \in Call, ReadSession(c) PROVE Requested'
    BY <1>7 DEF ReadSession, Consider
  <1>8. ASSUME NEW c \in Call, Write(c) PROVE Requested'
    BY <1>8 DEF Write, Allowed, NewRow, SameEvent
  <1>9. ASSUME NEW c \in Call, WriteRefused(c) PROVE Requested'
    BY <1>9 DEF WriteRefused, Allowed, SameEvent
  <1>10. ASSUME NEW c \in Call, FindByEventAgain(c) PROVE Requested'
    BY <1>10 DEF FindByEventAgain, Lookup, SameEvent
  <1>11. ASSUME NEW c \in Call, FindByProposalAgain(c) PROVE Requested'
    BY <1>11 DEF FindByProposalAgain, Lookup, SameProposal
  <1>12. ASSUME NEW c \in Call, Replay(c) PROVE Requested'
    BY <1>12 DEF Replay
  <1>13. ASSUME NEW c \in Call, Answer(c) PROVE Requested'
    BY <1>13 DEF Answer
  <1>14. ASSUME NEW c \in Call, DatabaseError(c) PROVE Requested'
    BY <1>14 DEF DatabaseError
  <1>15. ASSUME NEW c \in Call, Crash(c) PROVE Requested'
    BY <1>15 DEF Crash
  <1>16. CASE UNCHANGED vars
    BY <1>16 DEF vars
  <1> QED
    BY <1>1, <1>2, <1>3, <1>4, <1>5, <1>6, <1>7, <1>8, <1>9, <1>10, <1>11, <1>12, <1>13,
        <1>14, <1>15, <1>16 DEF Next, Statement

(* One transaction keeps the tables in agreement: it adds a version, its approval and
   the row that names them together. *)
LEMMA TablesStep ==
  ASSUME TypeOK, Requested, Carried, TablesAgree, [Next]_vars
  PROVE  TablesAgree'
  <1>1. CASE UNCHANGED tables
    BY <1>1 DEF TablesAgree, tables
  <1>2. ASSUME NEW c \in Call, Write(c)
        PROVE  TablesAgree'
    <2> DEFINE v0 == [trip |-> TripOf(c), number |-> arg[c].number,
                      proposal |-> arg[c].proposal, hotel |-> arg[c].hotel]
    <2> DEFINE a0 == [call |-> c, event |-> arg[c].event, user |-> arg[c].user,
                      session |-> arg[c].session, number |-> arg[c].number,
                      proposal |-> arg[c].proposal]
    <2>1. versions' = versions \cup {v0} /\ approvals' = approvals \cup {a0}
      BY <1>2 DEF Write
    <2>2. /\ v0.trip = TripOf(c) /\ v0.number = arg[c].number
          /\ v0.proposal = arg[c].proposal
          /\ TripOf(c) = <<a0.user, a0.session>> /\ a0.number = arg[c].number
          /\ a0.proposal = arg[c].proposal
      BY DEF TripOf
    <2>3. /\ TripOf(c) \in Trip /\ trips' = [trips EXCEPT ![TripOf(c)] = NewRow(c)]
          /\ NewRow(c) # NoTrip
          /\ NewRow(c).current = arg[c].number /\ NewRow(c).proposal = arg[c].proposal
      BY <1>2, WriteEffect
    <2> HIDE DEF v0, a0
    <2>4. \A t \in Trip : trips'[t] = IF t = TripOf(c) THEN NewRow(c) ELSE trips[t]
      BY <2>3 DEF TypeOK
    <2>5. \A a \in approvals' : \E v \in versions' :
            v.trip = <<a.user, a.session>> /\ v.number = a.number /\ v.proposal = a.proposal
      BY <2>1, <2>2 DEF TablesAgree
    <2>6. \A v \in versions' : \E a \in approvals' :
            v.trip = <<a.user, a.session>> /\ v.number = a.number /\ v.proposal = a.proposal
      BY <2>1, <2>2 DEF TablesAgree
    <2>7. \A v \in versions : v.trip \in Trip
      BY DEF TypeOK, Version
    <2>8. \A v \in versions' : trips'[v.trip] # NoTrip
      BY <2>1, <2>2, <2>3, <2>4, <2>7 DEF TablesAgree
    <2>9. ASSUME NEW t \in Trip, trips'[t] # NoTrip
          PROVE  \E v \in versions' : /\ v.trip = t /\ v.number = trips'[t].current
                                      /\ v.proposal = trips'[t].proposal
      <3>1. CASE t = TripOf(c)
        BY <3>1, <2>1, <2>2, <2>3, <2>4
      <3>2. CASE t # TripOf(c)
        BY <3>2, <2>1, <2>4, <2>9 DEF TablesAgree
      <3> QED
        BY <3>1, <3>2
    <2> QED
      BY <2>5, <2>6, <2>8, <2>9 DEF TablesAgree
  <1> QED
    BY <1>1, <1>2, WhoWrites

(* A transaction inserts a trip only for a session that has none. *)
LEMMA OwnerStep ==
  ASSUME TypeOK, Requested, Carried, OneOwner, [Next]_vars
  PROVE  OneOwner'
  <1>1. CASE UNCHANGED tables
    BY <1>1 DEF OneOwner, tables
  <1>2. ASSUME NEW c \in Call, Write(c)
        PROVE  OneOwner'
    BY <1>2, RequestAssumption
       DEF OneOwner, Write, Allowed, TypeOK, Requested, Carried, Trip, TripOf
  <1> QED
    BY <1>1, <1>2, WhoWrites

(* What the constraints let a transaction add has an event, a proposal and a number
   that are new, and a session of the same user. *)
LEMMA WriteIsNew ==
  ASSUME TypeOK, Requested, Carried, TablesAgree, OneOwner,
         NEW c \in Call, Write(c), NEW a \in approvals
  PROVE  /\ a.event # arg[c].event /\ a.proposal # arg[c].proposal
         /\ a.session = arg[c].session => a.user = arg[c].user /\ a.number # arg[c].number
  <1>1. arg[c] \in Request /\ TripOf(c) \in Trip
    BY WriteEffect
  <1>2. a.event # arg[c].event /\ a.proposal # arg[c].proposal
    BY DEF Write, Allowed, SameEvent, TablesAgree
  <1>3. ASSUME a.session = arg[c].session
        PROVE  a.user = arg[c].user /\ a.number # arg[c].number
    <2>1. PICK v \in versions : v.trip = <<a.user, a.session>> /\ v.number = a.number
      BY DEF TablesAgree
    <2>2. /\ trips[<<a.user, a.session>>] # NoTrip
          /\ a.user \in User /\ a.session \in Session
      BY <2>1 DEF TablesAgree, TypeOK, Approval
    <2>3. a.user = arg[c].user
      <3>1. CASE seen[c] = NoTrip
        BY <1>3, <2>2, <3>1 DEF Write, Allowed
      <3>2. CASE seen[c] # NoTrip
        <4>1. trips[<<arg[c].user, arg[c].session>>] # NoTrip
          BY <3>2 DEF Write, Carried, TripOf
        <4> QED
          BY <1>1, <1>3, <2>2, <4>1, RequestAssumption DEF OneOwner
      <3> QED
        BY <3>1, <3>2
    <2>4. a.number # arg[c].number
      BY <1>3, <2>1, <2>3 DEF Write, Allowed, TripOf
    <2> QED
      BY <2>3, <2>4
  <1> QED
    BY <1>2, <1>3

(* Every approval on record has its own proposal, event and version number. *)
LEMMA OnceStep ==
  ASSUME TypeOK, Requested, Carried, TablesAgree, OneOwner, SavedOnce, [Next]_vars
  PROVE  SavedOnce'
  <1>1. CASE UNCHANGED tables
    BY <1>1 DEF SavedOnce, tables
  <1>2. ASSUME NEW c \in Call, Write(c)
        PROVE  SavedOnce'
    <2> DEFINE a0 == [call |-> c, event |-> arg[c].event, user |-> arg[c].user,
                      session |-> arg[c].session, number |-> arg[c].number,
                      proposal |-> arg[c].proposal]
    <2>1. approvals' = approvals \cup {a0}
      BY <1>2 DEF Write
    <2>2. ASSUME NEW a \in approvals
          PROVE  /\ a.event # a0.event /\ a.proposal # a0.proposal
                 /\ a.session = a0.session => a.user = a0.user /\ a.number # a0.number
      BY <1>2, WriteIsNew
    <2> HIDE DEF a0
    <2> QED
      BY <2>1, <2>2 DEF SavedOnce
  <1> QED
    BY <1>1, <1>2, WhoWrites

(* What a call carries from statement to statement stays usable. *)
LEMMA CarriedStep ==
  ASSUME TypeOK, Requested, Carried, NeverIncomplete, AnswersAreTrue, [Next]_vars
  PROVE  Carried'
  <1> USE RequestAssumption DEF Goto, tables, Running, Ended
  <1>1. ASSUME NEW c \in Call, NEW r \in Request, Begin(c, r) PROVE Carried'
    BY <1>1 DEF Begin, TypeOK, Carried, Requested, NeverIncomplete, TripOf, Trip
  <1>2. ASSUME NEW c \in Call, FindByEvent(c) PROVE Carried'
    BY <1>2 DEF FindByEvent, Lookup, SameEvent, TypeOK, Carried, Requested, NeverIncomplete,
        TripOf, Trip
  <1>3. ASSUME NEW c \in Call, FindByProposal(c) PROVE Carried'
    BY <1>3 DEF FindByProposal, TypeOK, Carried, Requested, NeverIncomplete, TripOf, Trip
  <1>4. ASSUME NEW c \in Call, FindApproval(c) PROVE Carried'
    BY <1>4 DEF FindApproval, Lookup, SameProposal, TypeOK, Carried, Requested,
        NeverIncomplete, TripOf, Trip
  <1>5. ASSUME NEW c \in Call, CheckUser(c) PROVE Carried'
    BY <1>5 DEF CheckUser, TypeOK, Carried, Requested, NeverIncomplete, TripOf, Trip
  <1>6. ASSUME NEW c \in Call, ReadTrip(c) PROVE Carried'
    <2>1. arg[c] \in Request /\ arg[c].number > 0 /\ TripOf(c) \in Trip
      BY <1>6 DEF ReadTrip, Requested, Trip, TripOf
    <2>2. /\ \E label \in {"session", "write", "failed"} : pc' = [pc EXCEPT ![c] = label]
          /\ found' = found /\ arg' = arg /\ trips' = trips /\ approvals' = approvals
          /\ pc[c] \in Running
      BY <1>6 DEF ReadTrip, Consider
    <2>3. ASSUME NEW d \in Call, pc'[d] = "write"
          PROVE  /\ arg[d].number > seen'[d].current
                 /\ seen'[d] # NoTrip => trips[<<arg[d].user, arg[d].session>>] # NoTrip
      <3>1. CASE d = c
        BY <1>6, <2>1, <2>3, <3>1 DEF ReadTrip, Consider, TypeOK, NoTrip, TripOf
      <3>2. CASE d # c
        BY <1>6, <2>3, <3>2 DEF ReadTrip, Consider, TypeOK, Carried, TripOf
      <3> QED
        BY <3>1, <3>2
    <2> QED
      BY <2>2, <2>3 DEF TypeOK, Carried, TripOf
  <1>7. ASSUME NEW c \in Call, ReadSession(c) PROVE Carried'
    <2>1. arg[c] \in Request /\ arg[c].number > 0 /\ TripOf(c) \in Trip
      BY <1>7 DEF ReadSession, Requested, Trip, TripOf
    <2>2. /\ \E label \in {"session", "write", "failed"} : pc' = [pc EXCEPT ![c] = label]
          /\ found' = found /\ arg' = arg /\ trips' = trips /\ approvals' = approvals
          /\ pc[c] \in Running
      BY <1>7 DEF ReadSession, Consider
    <2>3. ASSUME NEW d \in Call, pc'[d] = "write"
          PROVE  /\ arg[d].number > seen'[d].current
                 /\ seen'[d] # NoTrip => trips[<<arg[d].user, arg[d].session>>] # NoTrip
      <3>1. CASE d = c
        BY <1>7, <2>1, <2>3, <3>1 DEF ReadSession, Consider, TypeOK, NoTrip, TripOf
      <3>2. CASE d # c
        BY <1>7, <2>3, <3>2 DEF ReadSession, Consider, TypeOK, Carried, TripOf
      <3> QED
        BY <3>1, <3>2
    <2> QED
      BY <2>2, <2>3 DEF TypeOK, Carried, TripOf
  <1>8. ASSUME NEW c \in Call, Write(c) PROVE Carried'
    <2> DEFINE a0 == [call |-> c, event |-> arg[c].event, user |-> arg[c].user,
                      session |-> arg[c].session, number |-> arg[c].number,
                      proposal |-> arg[c].proposal]
    <2>1. /\ approvals' = approvals \cup {a0} /\ a0.call = c
          /\ arg' = arg /\ seen' = seen /\ found' = found
          /\ pc' = [pc EXCEPT ![c] = "written"]
      BY <1>8 DEF Write
    <2>2. \A t \in Trip : trips[t] # NoTrip => trips'[t] # NoTrip
      BY <1>8, WriteEffect DEF TypeOK
    <2>3. \A d \in Call : pc[d] = "write" => TripOf(d) \in Trip
      BY DEF Requested, Trip, TripOf
    <2> HIDE DEF a0
    <2> QED
      BY <2>1, <2>2, <2>3 DEF TypeOK, Carried, TripOf
  <1>9. ASSUME NEW c \in Call, WriteRefused(c) PROVE Carried'
    BY <1>9 DEF WriteRefused, Allowed, SameEvent, TypeOK, Carried, Requested, NeverIncomplete,
        TripOf, Trip
  <1>10. ASSUME NEW c \in Call, FindByEventAgain(c) PROVE Carried'
    BY <1>10 DEF FindByEventAgain, Lookup, SameEvent, TypeOK, Carried, Requested,
        NeverIncomplete, TripOf, Trip
  <1>11. ASSUME NEW c \in Call, FindByProposalAgain(c) PROVE Carried'
    BY <1>11 DEF FindByProposalAgain, Lookup, SameProposal, TypeOK, Carried, Requested,
        NeverIncomplete, TripOf, Trip
  <1>12. ASSUME NEW c \in Call, Replay(c) PROVE Carried'
    BY <1>12 DEF Replay, TypeOK, Carried, Requested, NeverIncomplete, TripOf, Trip
  <1>13. ASSUME NEW c \in Call, Answer(c) PROVE Carried'
    BY <1>13 DEF Answer, TypeOK, Carried, Requested, NeverIncomplete, TripOf, Trip
  <1>14. ASSUME NEW c \in Call, DatabaseError(c) PROVE Carried'
    BY <1>14 DEF DatabaseError, TypeOK, Carried, Requested, NeverIncomplete, TripOf, Trip
  <1>15. ASSUME NEW c \in Call, Crash(c) PROVE Carried'
    BY <1>15 DEF Crash, TypeOK, Carried, Requested, NeverIncomplete, TripOf, Trip
  <1>16. CASE UNCHANGED vars
    BY <1>16 DEF vars, Carried, TripOf
  <1> QED
    BY <1>1, <1>2, <1>3, <1>4, <1>5, <1>6, <1>7, <1>8, <1>9, <1>10, <1>11, <1>12, <1>13,
        <1>14, <1>15, <1>16 DEF Next, Statement

(* No call answers something it has not done. *)
LEMMA AnswersStep ==
  ASSUME TypeOK, Requested, Carried, AnswersAreTrue, NeverIncomplete, [Next]_vars
  PROVE  AnswersAreTrue'
  <1> USE RequestAssumption DEF Goto, tables, Running, Ended
  <1>1. ASSUME NEW c \in Call, NEW r \in Request, Begin(c, r) PROVE AnswersAreTrue'
    BY <1>1 DEF Begin, TypeOK, Carried, AnswersAreTrue
  <1>2. ASSUME NEW c \in Call, FindByEvent(c) PROVE AnswersAreTrue'
    BY <1>2 DEF FindByEvent, Lookup, SameEvent, TypeOK, Carried, AnswersAreTrue
  <1>3. ASSUME NEW c \in Call, FindByProposal(c) PROVE AnswersAreTrue'
    BY <1>3 DEF FindByProposal, TypeOK, Carried, AnswersAreTrue
  <1>4. ASSUME NEW c \in Call, FindApproval(c) PROVE AnswersAreTrue'
    BY <1>4 DEF FindApproval, Lookup, SameProposal, TypeOK, Carried, AnswersAreTrue
  <1>5. ASSUME NEW c \in Call, CheckUser(c) PROVE AnswersAreTrue'
    BY <1>5 DEF CheckUser, TypeOK, Carried, AnswersAreTrue
  <1>6. ASSUME NEW c \in Call, ReadTrip(c) PROVE AnswersAreTrue'
    BY <1>6 DEF ReadTrip, Consider, TypeOK, Carried, AnswersAreTrue
  <1>7. ASSUME NEW c \in Call, ReadSession(c) PROVE AnswersAreTrue'
    BY <1>7 DEF ReadSession, Consider, TypeOK, Carried, AnswersAreTrue
  <1>8. ASSUME NEW c \in Call, Write(c) PROVE AnswersAreTrue'
    <2> DEFINE a0 == [call |-> c, event |-> arg[c].event, user |-> arg[c].user,
                      session |-> arg[c].session, number |-> arg[c].number,
                      proposal |-> arg[c].proposal]
    <2>1. approvals' = approvals \cup {a0} /\ arg' = arg /\ pc' = [pc EXCEPT ![c] = "written"]
      BY <1>8 DEF Write
    <2>2. a0.call = c /\ a0.event = arg[c].event /\ a0.user = arg[c].user
      OBVIOUS
    <2> HIDE DEF a0
    <2> QED
      BY <2>1, <2>2 DEF TypeOK, AnswersAreTrue
  <1>9. ASSUME NEW c \in Call, WriteRefused(c) PROVE AnswersAreTrue'
    BY <1>9 DEF WriteRefused, Allowed, SameEvent, TypeOK, Carried, AnswersAreTrue
  <1>10. ASSUME NEW c \in Call, FindByEventAgain(c) PROVE AnswersAreTrue'
    BY <1>10 DEF FindByEventAgain, Lookup, SameEvent, TypeOK, Carried, AnswersAreTrue
  <1>11. ASSUME NEW c \in Call, FindByProposalAgain(c) PROVE AnswersAreTrue'
    BY <1>11 DEF FindByProposalAgain, Lookup, SameProposal, TypeOK, Carried, AnswersAreTrue
  <1>12. ASSUME NEW c \in Call, Replay(c) PROVE AnswersAreTrue'
    <2>1. found[c] \in approvals /\ found[c].proposal = arg[c].proposal
      BY <1>12 DEF Replay, Carried, NeverIncomplete
    <2>2. \A a \in approvals : a.call # c
      BY <1>12 DEF Replay, Carried
    <2> QED
      BY <1>12, <2>1, <2>2 DEF Replay, TypeOK, AnswersAreTrue
  <1>13. ASSUME NEW c \in Call, Answer(c) PROVE AnswersAreTrue'
    BY <1>13 DEF Answer, TypeOK, Carried, AnswersAreTrue
  <1>14. ASSUME NEW c \in Call, DatabaseError(c) PROVE AnswersAreTrue'
    BY <1>14 DEF DatabaseError, TypeOK, Carried, AnswersAreTrue
  <1>15. ASSUME NEW c \in Call, Crash(c) PROVE AnswersAreTrue'
    BY <1>15 DEF Crash, TypeOK, Carried, AnswersAreTrue
  <1>16. CASE UNCHANGED vars
    BY <1>16 DEF vars, AnswersAreTrue
  <1> QED
    BY <1>1, <1>2, <1>3, <1>4, <1>5, <1>6, <1>7, <1>8, <1>9, <1>10, <1>11, <1>12, <1>13,
        <1>14, <1>15, <1>16 DEF Next, Statement

(* A call looks up an approval only for a version it has seen, and replays only what it
   has found; what is stored stays stored. *)
LEMMA NeverStep ==
  ASSUME TypeOK, Requested, Carried, TablesAgree, NeverIncomplete, [Next]_vars
  PROVE  NeverIncomplete'
  <1>1. \A v \in versions : \E a \in approvals : a.proposal = v.proposal
    BY DEF TablesAgree
  <1>2. \A a \in approvals : /\ trips[<<a.user, a.session>>] # NoTrip
                             /\ \E v \in versions : v.proposal = a.proposal
    BY DEF TablesAgree
  <1>3. CASE UNCHANGED vars
    BY <1>3 DEF vars, tables, NeverIncomplete, SameProposal
  <1>4. ASSUME NEW c \in Call, Write(c)
        PROVE  NeverIncomplete'
    <2>1. \A t \in Trip : trips[t] # NoTrip => trips'[t] # NoTrip
      BY <1>4, WriteEffect DEF TypeOK
    <2>2. \A a \in approvals : <<a.user, a.session>> \in Trip
      BY DEF TypeOK, Approval, Trip
    <2>3. /\ approvals \subseteq approvals' /\ versions \subseteq versions'
          /\ arg' = arg /\ found' = found /\ pc' = [pc EXCEPT ![c] = "written"]
      BY <1>4 DEF Write, Goto
    <2> QED
      BY <2>1, <2>2, <2>3 DEF NeverIncomplete, SameProposal, TypeOK
  <1>5. ASSUME NEW c \in Call, NEW label, pc' = [pc EXCEPT ![c] = label],
               UNCHANGED tables, \A d \in Call \ {c} : arg'[d] = arg[d] /\ found'[d] = found[d],
               label = "approvalOf" =>
                 arg'[c] = arg[c] /\ \E v \in versions : v.proposal = arg[c].proposal,
               label = "replay" => found'[c] \in approvals
        PROVE  NeverIncomplete'
    <2> SUFFICES ASSUME NEW d \in Call
                 PROVE  /\ pc'[d] = "approvalOf" => SameProposal(d)' # {}
                        /\ pc'[d] = "replay" =>
                             /\ found'[d] \in approvals'
                             /\ trips'[<<found'[d].user, found'[d].session>>] # NoTrip
                             /\ \E v \in versions' : v.proposal = found'[d].proposal
      BY DEF NeverIncomplete
    <2>1. trips' = trips /\ versions' = versions /\ approvals' = approvals
      BY <1>5 DEF tables
    <2>2. CASE d = c
      <3>1. pc'[d] = label
        BY <1>5, <2>2 DEF TypeOK
      <3> QED
        BY <1>1, <1>2, <1>5, <2>1, <2>2, <3>1 DEF SameProposal
    <2>3. CASE d # c
      <3>1. pc'[d] = pc[d] /\ arg'[d] = arg[d] /\ found'[d] = found[d]
        BY <1>5, <2>3 DEF TypeOK
      <3> QED
        BY <2>1, <3>1 DEF NeverIncomplete, SameProposal
    <2> QED
      BY <2>2, <2>3
  <1>6. ASSUME NEW c \in Call, NEW r \in Request, Begin(c, r)
        PROVE  NeverIncomplete'
    BY <1>6, <1>5 DEF Begin, Goto, TypeOK
  <1>7. ASSUME NEW c \in Call, NEW here, NEW matches \in SUBSET approvals, NEW otherwise,
               otherwise \notin {"approvalOf", "replay"}, Lookup(c, here, matches, otherwise)
        PROVE  NeverIncomplete'
    <2>1. CASE matches = {}
      BY <1>5, <1>7, <2>1 DEF Lookup, Goto
    <2>2. CASE matches # {}
      <3>1. PICK a \in matches : Goto(c, "replay") /\ found' = [found EXCEPT ![c] = a]
        BY <1>7, <2>2 DEF Lookup
      <3>2. found'[c] = a /\ \A d \in Call \ {c} : found'[d] = found[d]
        BY <3>1 DEF TypeOK
      <3> QED
        BY <1>5, <1>7, <3>1, <3>2 DEF Lookup, Goto
    <2> QED
      BY <2>1, <2>2
  <1>8. ASSUME NEW c \in Call, FindByEvent(c) \/ FindApproval(c) \/ FindByEventAgain(c)
                                 \/ FindByProposalAgain(c)
        PROVE  NeverIncomplete'
    <2>1. SameEvent(c) \in SUBSET approvals /\ SameProposal(c) \in SUBSET approvals
      BY DEF SameEvent, SameProposal
    <2> QED
      BY <1>7, <1>8, <2>1 DEF FindByEvent, FindApproval, FindByEventAgain, FindByProposalAgain
  <1>9. ASSUME NEW c \in Call, FindByProposal(c)
        PROVE  NeverIncomplete'
    BY <1>9, <1>5 DEF FindByProposal, Goto
  <1>10. ASSUME NEW c \in Call,
                CheckUser(c) \/ ReadTrip(c) \/ ReadSession(c) \/ WriteRefused(c) \/ Replay(c)
                  \/ Answer(c) \/ DatabaseError(c) \/ Crash(c)
         PROVE  NeverIncomplete'
    <2>1. /\ \E label \in {"trip", "failed", "session", "write", "againByEvent", "already",
                           "committed", "lost"} : pc' = [pc EXCEPT ![c] = label]
          /\ UNCHANGED <<tables, arg, found>>
      BY <1>10 DEF CheckUser, ReadTrip, ReadSession, WriteRefused, Replay, Answer,
                   DatabaseError, Crash, Consider, Goto
    <2> QED
      BY <1>5, <2>1
  <1> QED
    BY <1>3, <1>4, <1>6, <1>8, <1>9, <1>10 DEF Next, Statement

(* The execution lock keeps calls of one process apart, so that no row changes between
   a call's read and its write. *)
LEMMA AloneStep ==
  ASSUME TypeOK, Requested, Alone, [Next]_vars
  PROVE  Alone'
  <1> USE RequestAssumption DEF TypeOK, Alone, Goto, tables, Running, Ended, TripOf, NoTrip
  <1>1. ASSUME NEW c \in Call, NEW r \in Request, Begin(c, r) PROVE Alone'
    BY <1>1 DEF Begin
  <1>2. ASSUME NEW c \in Call, FindByEvent(c) PROVE Alone'
    BY <1>2 DEF FindByEvent, Lookup, SameEvent
  <1>3. ASSUME NEW c \in Call, FindByProposal(c) PROVE Alone'
    BY <1>3 DEF FindByProposal
  <1>4. ASSUME NEW c \in Call, FindApproval(c) PROVE Alone'
    BY <1>4 DEF FindApproval, Lookup, SameProposal
  <1>5. ASSUME NEW c \in Call, CheckUser(c) PROVE Alone'
    BY <1>5 DEF CheckUser
  <1>6. ASSUME NEW c \in Call, ReadTrip(c) PROVE Alone'
    BY <1>6 DEF ReadTrip, Consider
  <1>7. ASSUME NEW c \in Call, ReadSession(c) PROVE Alone'
    BY <1>7 DEF ReadSession, Consider
  <1>8. ASSUME NEW c \in Call, Write(c) PROVE Alone'
    BY <1>8 DEF Write, Allowed, NewRow, SameEvent
  <1>9. ASSUME NEW c \in Call, WriteRefused(c) PROVE Alone'
    BY <1>9 DEF WriteRefused, Allowed, SameEvent
  <1>10. ASSUME NEW c \in Call, FindByEventAgain(c) PROVE Alone'
    BY <1>10 DEF FindByEventAgain, Lookup, SameEvent
  <1>11. ASSUME NEW c \in Call, FindByProposalAgain(c) PROVE Alone'
    BY <1>11 DEF FindByProposalAgain, Lookup, SameProposal
  <1>12. ASSUME NEW c \in Call, Replay(c) PROVE Alone'
    BY <1>12 DEF Replay
  <1>13. ASSUME NEW c \in Call, Answer(c) PROVE Alone'
    BY <1>13 DEF Answer
  <1>14. ASSUME NEW c \in Call, DatabaseError(c) PROVE Alone'
    BY <1>14 DEF DatabaseError
  <1>15. ASSUME NEW c \in Call, Crash(c) PROVE Alone'
    BY <1>15 DEF Crash
  <1>16. CASE UNCHANGED vars
    BY <1>16 DEF vars
  <1> QED
    BY <1>1, <1>2, <1>3, <1>4, <1>5, <1>6, <1>7, <1>8, <1>9, <1>10, <1>11, <1>12, <1>13,
        <1>14, <1>15, <1>16 DEF Next, Statement

(* The only call of a single process updates the row it has read. *)
LEMMA DescribedStep ==
  ASSUME TypeOK, Requested, Carried, TablesAgree, Alone, Described, [Next]_vars
  PROVE  Described'
  <1>1. CASE UNCHANGED tables
    BY <1>1 DEF Described, RowDescribesVersion, tables
  <1>2. ASSUME NEW c \in Call, Write(c), Exclusive
        PROVE  RowDescribesVersion'
    <2> DEFINE v0 == [trip |-> TripOf(c), number |-> arg[c].number,
                      proposal |-> arg[c].proposal, hotel |-> arg[c].hotel]
    <2>1. versions' = versions \cup {v0}
      BY <1>2 DEF Write
    <2>2. v0.proposal = arg[c].proposal /\ v0.hotel = arg[c].hotel
      OBVIOUS
    <2>3. /\ TripOf(c) \in Trip /\ trips' = [trips EXCEPT ![TripOf(c)] = NewRow(c)]
          /\ NewRow(c).proposal = arg[c].proposal
      BY <1>2, WriteEffect
    <2>4. NewRow(c).hotel = arg[c].hotel
      <3>1. seen[c] = trips[TripOf(c)]
        BY <1>2 DEF Write, Alone, Running
      <3> QED
        BY <3>1 DEF NewRow
    <2> HIDE DEF v0
    <2>5. \A t \in Trip : trips'[t] = IF t = TripOf(c) THEN NewRow(c) ELSE trips[t]
      BY <2>3 DEF TypeOK
    <2> QED
      BY <1>2, <2>1, <2>2, <2>3, <2>4, <2>5 DEF Described, RowDescribesVersion
  <1> QED
    BY <1>1, <1>2, WhoWrites DEF Described
------------------------------------------------------------------------------
(* The empty tables satisfy every part of the invariant. *)
LEMMA InitIsGood == Init => IInv /\ Alone /\ Described
  BY RequestAssumption
     DEF Init, IInv, TypeOK, Requested, TablesAgree, OneOwner, SavedOnce, Carried,
         AnswersAreTrue, NeverIncomplete, Alone, Described, RowDescribesVersion, Running,
         Ended, Trip, NoTrip, NoRequest, NoApproval

(* The parts together. *)
LEMMA Inductive == IInv /\ [Next]_vars => IInv'
  <1> SUFFICES ASSUME IInv, [Next]_vars PROVE IInv'
    OBVIOUS
  <1>0. TypeOK /\ Requested /\ TablesAgree /\ OneOwner /\ SavedOnce /\ Carried
          /\ AnswersAreTrue /\ NeverIncomplete
    BY DEF IInv
  <1>1. TypeOK' /\ Requested' /\ TablesAgree' /\ OneOwner'
    BY <1>0, TypeStep, RequestedStep, TablesStep, OwnerStep
  <1>2. SavedOnce' /\ Carried' /\ AnswersAreTrue' /\ NeverIncomplete'
    BY <1>0, OnceStep, CarriedStep, AnswersStep, NeverStep
  <1> QED
    BY <1>1, <1>2 DEF IInv

(* The inductive invariant holds however calls of different processes interleave, fail
   and crash. *)
THEOREM Invariant == Spec => []IInv
  BY InitIsGood, Inductive, PTL DEF Spec

(* Tables and local variables of the calls have their types. *)
THEOREM TypeCorrect == Spec => []TypeOK
  <1>1. IInv => TypeOK
    BY DEF IInv
  <1> QED
    BY <1>1, Invariant, PTL

(* Drafts, versions and approvals are never half written: each version has its approval
   and its trip, and the trip names a stored version. *)
THEOREM TablesTellOneStory == Spec => []TablesAgree
  <1>1. IInv => TablesAgree
    BY DEF IInv
  <1> QED
    BY <1>1, Invariant, PTL

(* A proposal, a decision event and a version number of a session are saved at most
   once, and a session is saved for one user only. *)
THEOREM NothingIsSavedTwice == Spec => []SavedOnce
  <1>1. IInv => SavedOnce
    BY DEF IInv
  <1> QED
    BY <1>1, Invariant, PTL

(* committed, already_committed and a failure say what the call has done. *)
THEOREM AnswersCanBeTrusted == Spec => []AnswersAreTrue
  <1>1. IInv => AnswersAreTrue
    BY DEF IInv
  <1> QED
    BY <1>1, Invariant, PTL

(* The two errors commit raises for an incomplete database cannot occur. *)
THEOREM DatabaseIsComplete == Spec => []NeverIncomplete
  <1>1. IInv => NeverIncomplete
    BY DEF IInv
  <1> QED
    BY <1>1, Invariant, PTL

(* Types, tables and the absence of incomplete rows together. *)
THEOREM StoreStaysWhole == Spec => []StoreIsWhole
  <1>1. TypeOK /\ TablesAgree /\ NeverIncomplete => StoreIsWhole
    BY DEF StoreIsWhole
  <1> QED
    BY <1>1, TypeCorrect, TablesTellOneStory, DatabaseIsComplete, PTL

------------------------------------------------------------------------------
(* A single server process. *)

(* What the execution lock adds to the invariant. *)
LEMMA SingleInvariant == Spec => [](IInv /\ Alone /\ Described)
  <1>1. IInv /\ Alone /\ Described /\ [Next]_vars => (IInv /\ Alone /\ Described)'
    BY Inductive, AloneStep, DescribedStep DEF IInv
  <1> QED
    BY <1>1, InitIsGood, PTL DEF Spec

(* With one server process the row of a trip describes the version it names. *)
THEOREM SingleRowDescribesVersion == Exclusive => (Spec => []RowDescribesVersion)
  <1> SUFFICES ASSUME Exclusive PROVE Spec => []RowDescribesVersion
    OBVIOUS
  <1>1. Described => RowDescribesVersion
    BY DEF Described
  <1> QED
    BY <1>1, SingleInvariant, PTL

(* With one server process no trip goes back to an earlier version. *)
THEOREM SingleVersionsAscend == Exclusive => (Spec => VersionsAscend)
  <1> SUFFICES ASSUME Exclusive PROVE Spec => VersionsAscend
    OBVIOUS
  <1>1. ASSUME IInv, Alone, [Next]_vars
        PROVE  [\A t \in Trip : trips'[t].current >= trips[t].current]_vars
    <2>0. TypeOK /\ Requested /\ Carried
      BY <1>1 DEF IInv
    <2>1. \A t \in Trip : trips[t].current \in Nat
      BY <2>0 DEF TypeOK, Row, NoTrip
    <2>2. CASE UNCHANGED tables
      BY <2>1, <2>2 DEF tables
    <2>3. ASSUME NEW c \in Call, Write(c)
          PROVE  \A t \in Trip : trips'[t].current >= trips[t].current
      <3>1. /\ arg[c] \in Request /\ TripOf(c) \in Trip
            /\ trips' = [trips EXCEPT ![TripOf(c)] = NewRow(c)]
            /\ NewRow(c).current = arg[c].number
        BY <2>0, <2>3, WriteEffect
      <3>2. arg[c].number > trips[TripOf(c)].current
        BY <1>1, <2>0, <2>3 DEF Write, Alone, Running, Carried
      <3>3. arg[c].number \in Nat
        BY <3>1, RequestAssumption
      <3> QED
        BY <2>0, <2>1, <3>1, <3>2, <3>3 DEF TypeOK
    <2> QED
      BY <1>1, <2>2, <2>3, WhoWrites
  <1> QED
    BY <1>1, SingleInvariant, PTL DEF Spec, VersionsAscend

------------------------------------------------------------------------------
(* Refinement. *)

(* Moving a call to another label moves it to that label's stage. *)
LEMMA StageStep ==
  ASSUME TypeOK, NEW c \in Call, NEW label, Goto(c, label)
  PROVE  [d \in Call |-> StageOf(pc[d])]'
           = [[d \in Call |-> StageOf(pc[d])] EXCEPT ![c] = StageOf(label)]
  BY DEF TypeOK, Goto

(* Every step of a call is a step of TripStore or leaves it alone. *)
LEMMA StepRefines == IInv /\ [Next]_vars => [Store!Next]_(Store!vars)
  <1> SUFFICES ASSUME IInv, [Next]_vars PROVE [Store!Next]_(Store!vars)
    OBVIOUS
  <1> DEFINE stage == [d \in Call |-> StageOf(pc[d])]
  <1>0. TypeOK /\ Requested /\ Carried /\ TablesAgree /\ OneOwner /\ NeverIncomplete
    BY DEF IInv
  <1>1. CASE UNCHANGED vars
    BY <1>1 DEF vars, tables, Store!vars
  <1>2. ASSUME NEW c \in Call, NEW r \in Request, Begin(c, r)
        PROVE  Store!Ask(c, r)
    <2>1. stage' = [stage EXCEPT ![c] = "asked"]
      BY <1>0, <1>2, StageStep DEF Begin, StageOf, Running
    <2>2. stage[c] = "idle"
      BY <1>2 DEF Begin, StageOf, Running
    <2> QED
      BY <1>2, <2>1, <2>2 DEF Begin, tables, Store!Ask
  <1>3. ASSUME NEW c \in Call, pc[c] \in Running, UNCHANGED <<tables, arg>>,
               NEW label \in Running, Goto(c, label)
        PROVE  UNCHANGED Store!vars
    <2>1. stage' = [stage EXCEPT ![c] = "asked"]
      BY <1>0, <1>3, StageStep DEF StageOf, Running
    <2>2. stage[c] = "asked"
      BY <1>3 DEF StageOf, Running
    <2>3. stage' = stage
      BY <2>1, <2>2
    <2> QED
      BY <1>3, <2>3 DEF tables, Store!vars
  <1>4. ASSUME NEW c \in Call, pc[c] \in Running, UNCHANGED <<tables, arg>>,
               Goto(c, "failed")
        PROVE  Store!AnswerFailed(c)
    <2>1. stage' = [stage EXCEPT ![c] = "failed"]
      BY <1>0, <1>4, StageStep DEF StageOf, Running
    <2>2. stage[c] = "asked"
      BY <1>4 DEF StageOf, Running
    <2> QED
      BY <1>4, <2>1, <2>2 DEF tables, Store!AnswerFailed
  <1>5. ASSUME NEW c \in Call,
               \/ FindByEvent(c) \/ FindByProposal(c) \/ FindApproval(c) \/ CheckUser(c)
               \/ ReadTrip(c) \/ ReadSession(c) \/ WriteRefused(c) \/ FindByEventAgain(c)
               \/ FindByProposalAgain(c) \/ DatabaseError(c)
        PROVE  UNCHANGED Store!vars \/ Store!AnswerFailed(c)
    <2>1. /\ pc[c] \in Running /\ UNCHANGED <<tables, arg>>
          /\ \E label \in Running \cup {"failed"} : Goto(c, label)
      BY <1>5 DEF FindByEvent, FindByProposal, FindApproval, CheckUser, ReadTrip,
                  ReadSession, WriteRefused, FindByEventAgain, FindByProposalAgain,
                  DatabaseError, Lookup, Consider, Running
    <2> QED
      BY <1>3, <1>4, <2>1
  <1>6. ASSUME NEW c \in Call, Write(c)
        PROVE  Store!Save(c)
    <2>1. stage' = [stage EXCEPT ![c] = "saved"]
      BY <1>0, <1>6, StageStep DEF Write, StageOf, Running
    <2>2. stage[c] = "asked"
      BY <1>6 DEF Write, StageOf, Running
    <2>3. \A a \in approvals :
            /\ a.event # arg[c].event /\ a.proposal # arg[c].proposal
            /\ a.session = arg[c].session => a.user = arg[c].user /\ a.number # arg[c].number
      BY <1>0, <1>6, WriteIsNew
    <2> QED
      BY <1>6, <2>1, <2>2, <2>3 DEF Write, Store!Save
  <1>7. ASSUME NEW c \in Call, Replay(c)
        PROVE  Store!AnswerAlready(c) \/ Store!AnswerFailed(c)
    <2>1. CASE found[c].user = arg[c].user /\ Goto(c, "already")
      <3>1. stage' = [stage EXCEPT ![c] = "already"]
        BY <1>0, <2>1, StageStep DEF StageOf, Running
      <3>2. stage[c] = "asked"
        BY <1>7 DEF Replay, StageOf, Running
      <3>3. \E a \in approvals : a.proposal = arg[c].proposal /\ a.user = arg[c].user
        BY <1>0, <1>7, <2>1 DEF Replay, Carried, NeverIncomplete
      <3> QED
        BY <1>7, <3>1, <3>2, <3>3 DEF Replay, tables, Store!AnswerAlready
    <2>2. CASE Goto(c, "failed")
      BY <1>4, <1>7, <2>2 DEF Replay, Running
    <2> QED
      BY <1>7, <2>1, <2>2 DEF Replay
  <1>8. ASSUME NEW c \in Call, Answer(c)
        PROVE  Store!AnswerCommitted(c)
    <2>1. stage' = [stage EXCEPT ![c] = "committed"]
      BY <1>0, <1>8, StageStep DEF Answer, StageOf, Running
    <2>2. stage[c] = "saved"
      BY <1>8 DEF Answer, StageOf, Running
    <2> QED
      BY <1>8, <2>1, <2>2 DEF Answer, tables, Store!AnswerCommitted
  <1>9. ASSUME NEW c \in Call, Crash(c)
        PROVE  Store!Lose(c)
    <2>1. stage' = [stage EXCEPT ![c] = "lost"]
      BY <1>0, <1>9, StageStep DEF Crash, StageOf, Running
    <2>2. stage[c] \in {"asked", "saved"}
      BY <1>9 DEF Crash, StageOf, Running
    <2> QED
      BY <1>9, <2>1, <2>2 DEF Crash, tables, Store!Lose
  <1> QED
    BY <1>1, <1>2, <1>5, <1>6, <1>7, <1>8, <1>9 DEF Next, Statement, Store!Next

(* Statement by statement, CommitDraftService.commit does what TripStore does in one
   step: an approval is saved whole or not at all, once, and answered truthfully. *)
THEOREM Refinement == Spec => ImplementsStore
  <1>1. Init => Store!Init
    BY DEF Init, Store!Init, NoRequest, Store!NoRequest, StageOf, Running
  <1> QED
    BY <1>1, StepRefines, Invariant, PTL DEF Spec, ImplementsStore, Store!Spec
=============================================================================
