----------------------------- MODULE CommitDraft -----------------------------
(***************************************************************************)
(* CommitDraftService.commit over the business database (SQLite): three    *)
(* tables, trip_drafts, trip_versions and approval_records.  A call reads  *)
(* with one autocommitted SELECT after the other and then writes all three *)
(* tables in one transaction, whose write lock it takes with the first     *)
(* statement: the reads of several calls interleave with the transactions  *)
(* of others, and a call decides on rows that may have changed since.      *)
(* Calls run in different server processes; within one process the         *)
(* execution lock of the workflow runtime lets one run at a time.          *)
(***************************************************************************)
EXTENDS Integers

CONSTANTS
  Call,        \* the calls of commit
  Request,     \* what a call is given
  User,        \* users named by requests
  Registered,  \* the rows of the users table
  Session,     \* trip_session_id, the thread of a plan
  Exclusive    \* TRUE when a single server process takes all calls

\* The identifiers are hashes: an event is one decision on one proposal, and a
\* proposal has one version number and content.  Neither hash has the user in it.
ASSUME RequestAssumption ==
  /\ \A r \in Request :
       /\ r.user \in User /\ r.session \in Session /\ r.number \in Nat \ {0}
       /\ r.event # "none"
  /\ \A q, r \in Request :
       /\ q.event = r.event => q.proposal = r.proposal
       /\ q.proposal = r.proposal => q.number = r.number /\ q.hotel = r.hotel
  /\ Exclusive \in BOOLEAN

VARIABLES
  trips,      \* trip_drafts, by trip_id: the summary of the current version
  versions,   \* trip_versions
  approvals,  \* approval_records
  arg,        \* the request of each call
  pc,         \* the statement of commit each call is at
  seen,       \* the trip_drafts row the call has loaded
  found       \* the approval the call is going to replay

tables == <<trips, versions, approvals>>
vars == <<tables, arg, pc, seen, found>>

NoRequest == [event |-> "none"]
NoTrip == [current |-> 0]
NoApproval == [event |-> "none"]

\* _build_trip_id hashes the user and the session.
Trip == User \X Session
TripOf(c) == <<arg[c].user, arg[c].session>>

Running == {"byEvent", "byProposal", "approvalOf", "user", "trip", "session", "write",
            "againByEvent", "againByProposal", "replay"}
Ended == {"committed", "already", "failed", "lost"}

Init ==
  /\ trips = [t \in Trip |-> NoTrip] /\ versions = {} /\ approvals = {}
  /\ arg = [c \in Call |-> NoRequest]
  /\ pc = [c \in Call |-> "idle"]
  /\ seen = [c \in Call |-> NoTrip]
  /\ found = [c \in Call |-> NoApproval]

------------------------------------------------------------------------------
Goto(c, label) == pc' = [pc EXCEPT ![c] = label]

\* commit_draft_node opens a session and calls commit with the state of its thread.
Begin(c, r) ==
  /\ pc[c] = "idle"
  /\ Exclusive => \A d \in Call : pc[d] \in Ended \cup {"idle"}
  /\ Goto(c, "byEvent")
  /\ arg' = [arg EXCEPT ![c] = r]
  /\ UNCHANGED <<tables, seen, found>>

\* A lookup in approval_records: replay what is found, or go on.
Lookup(c, label, matches, otherwise) ==
  /\ pc[c] = label
  /\ IF matches = {}
     THEN Goto(c, otherwise) /\ UNCHANGED found
     ELSE \E a \in matches : Goto(c, "replay") /\ found' = [found EXCEPT ![c] = a]
  /\ UNCHANGED <<tables, arg, seen>>

SameEvent(c) == {a \in approvals : a.event = arg[c].event}
SameProposal(c) == {a \in approvals : a.proposal = arg[c].proposal}

FindByEvent(c) == Lookup(c, "byEvent", SameEvent(c), "byProposal")

\* The version row alone does not answer; its approval is looked up next.
FindByProposal(c) ==
  /\ pc[c] = "byProposal"
  /\ Goto(c, IF \E v \in versions : v.proposal = arg[c].proposal THEN "approvalOf" ELSE "user")
  /\ UNCHANGED <<tables, arg, seen, found>>

\* CommitConflictError when a version has no approval.
FindApproval(c) == Lookup(c, "approvalOf", SameProposal(c), "failed")

CheckUser(c) ==
  /\ pc[c] = "user"
  /\ Goto(c, IF arg[c].user \in Registered THEN "trip" ELSE "failed")
  /\ UNCHANGED <<tables, arg, seen, found>>

\* Slip: only the same version is refused.
ConsiderAnyOther(c, row) ==
  IF arg[c].number # row.current
  THEN Goto(c, "write") /\ seen' = [seen EXCEPT ![c] = row]
  ELSE Goto(c, "failed") /\ UNCHANGED seen

\* _update_existing_trip refuses a version that is not above the row it was given.
Consider(c, row) ==
  IF arg[c].number > row.current
  THEN Goto(c, "write") /\ seen' = [seen EXCEPT ![c] = row]
  ELSE Goto(c, "failed") /\ UNCHANGED seen

ReadTrip(c) ==
  /\ pc[c] = "trip"
  /\ IF trips[TripOf(c)] = NoTrip
     THEN Goto(c, "session") /\ UNCHANGED seen
     ELSE Consider(c, trips[TripOf(c)])
  /\ UNCHANGED <<tables, arg, found>>

\* No row under the trip id: look for the session, which another user may hold, or
\* another call may have saved since the last statement.
ReadSession(c) ==
  /\ pc[c] = "session"
  /\ \/ /\ \E u \in User \ {arg[c].user} : trips[<<u, arg[c].session>>] # NoTrip
        /\ Goto(c, "failed")
        /\ UNCHANGED seen
     \/ /\ \A u \in User \ {arg[c].user} : trips[<<u, arg[c].session>>] = NoTrip
        /\ Consider(c, trips[TripOf(c)])
  /\ UNCHANGED <<tables, arg, found>>

\* Slip: trip_versions without its unique constraints.
AllowedTwice(c) ==
  /\ seen[c] = NoTrip => \A u \in User : trips[<<u, arg[c].session>>] = NoTrip
  /\ SameEvent(c) = {}

\* The unique constraints of the three tables.  Only a call that saw no row inserts one.
Allowed(c) ==
  /\ seen[c] = NoTrip => \A u \in User : trips[<<u, arg[c].session>>] = NoTrip
  /\ \A v \in versions :
       /\ v.proposal # arg[c].proposal
       /\ v.trip = TripOf(c) => v.number # arg[c].number
  /\ SameEvent(c) = {}

\* Slip: an update forgets the hotel.
NewRowOldHotel(c) ==
  [current |-> arg[c].number, proposal |-> arg[c].proposal,
   hotel |-> IF seen[c] # NoTrip THEN seen[c].hotel ELSE arg[c].hotel]

\* SQLAlchemy updates the columns whose value differs from the one it loaded.
NewRow(c) ==
  [current |-> arg[c].number, proposal |-> arg[c].proposal,
   hotel |-> IF seen[c] # NoTrip /\ seen[c].hotel = arg[c].hotel
             THEN trips[TripOf(c)].hotel ELSE arg[c].hotel]

\* Slip: the version is committed before the approval is added.
WriteInParts(c) ==
  /\ pc[c] = "write" /\ Allowed(c)
  /\ trips' = [trips EXCEPT ![TripOf(c)] = NewRow(c)]
  /\ versions' = versions \cup
       {[trip |-> TripOf(c), number |-> arg[c].number, proposal |-> arg[c].proposal,
         hotel |-> arg[c].hotel]}
  /\ Goto(c, "written")
  /\ UNCHANGED <<approvals, arg, seen, found>>

\* The transaction, from the first flush to commit.
Write(c) ==
  /\ pc[c] = "write" /\ Allowed(c)
  /\ trips' = [trips EXCEPT ![TripOf(c)] = NewRow(c)]
  /\ versions' = versions \cup
       {[trip |-> TripOf(c), number |-> arg[c].number, proposal |-> arg[c].proposal,
         hotel |-> arg[c].hotel]}
  /\ approvals' = approvals \cup
       {[call |-> c, event |-> arg[c].event, user |-> arg[c].user,
         session |-> arg[c].session, number |-> arg[c].number,
         proposal |-> arg[c].proposal]}
  /\ Goto(c, "written")
  /\ UNCHANGED <<arg, seen, found>>

\* IntegrityError: everything is rolled back, and somebody else may have saved it.
WriteRefused(c) ==
  /\ pc[c] = "write" /\ ~Allowed(c)
  /\ Goto(c, "againByEvent")
  /\ UNCHANGED <<tables, arg, seen, found>>

FindByEventAgain(c) == Lookup(c, "againByEvent", SameEvent(c), "againByProposal")

\* Nothing found: the IntegrityError is raised again.
FindByProposalAgain(c) == Lookup(c, "againByProposal", SameProposal(c), "failed")

\* Slip: whoever asks is given the approval.
ReplayForAnyone(c) ==
  /\ pc[c] = "replay"
  /\ Goto(c, "already")
  /\ UNCHANGED <<tables, arg, seen, found>>

\* _build_existing_output: the approval must be the user's own and its rows exist.
Replay(c) ==
  /\ pc[c] = "replay"
  /\ Goto(c, IF /\ found[c].user = arg[c].user
                /\ trips[<<found[c].user, found[c].session>>] # NoTrip
                /\ \E v \in versions : v.proposal = found[c].proposal
             THEN "already" ELSE "failed")
  /\ UNCHANGED <<tables, arg, seen, found>>

\* The result goes back to the graph.
Answer(c) ==
  /\ pc[c] = "written"
  /\ Goto(c, "committed")
  /\ UNCHANGED <<tables, arg, seen, found>>

\* Slip: an error after the commit is reported like one before it.
DatabaseErrorLate(c) ==
  /\ pc[c] \in Running \cup {"written"}
  /\ Goto(c, "failed")
  /\ UNCHANGED <<tables, arg, seen, found>>

\* Any other database error, a lock timeout included: rolled back and raised.
DatabaseError(c) ==
  /\ pc[c] \in Running
  /\ Goto(c, "failed")
  /\ UNCHANGED <<tables, arg, seen, found>>

\* The process dies: an open transaction is gone, a committed one stays.
Crash(c) ==
  /\ pc[c] \in Running \cup {"written"}
  /\ Goto(c, "lost")
  /\ UNCHANGED <<tables, arg, seen, found>>

Statement(c) ==
  \/ FindByEvent(c) \/ FindByProposal(c) \/ FindApproval(c) \/ CheckUser(c)
  \/ ReadTrip(c) \/ ReadSession(c) \/ Write(c) \/ WriteRefused(c)
  \/ FindByEventAgain(c) \/ FindByProposalAgain(c) \/ Replay(c) \/ Answer(c)

Next == \E c \in Call :
  (\E r \in Request : Begin(c, r)) \/ Statement(c) \/ DatabaseError(c) \/ Crash(c)

Spec == Init /\ [][Next]_vars

------------------------------------------------------------------------------
(* Properties. *)

Row == [current : Nat, proposal : {r.proposal : r \in Request},
        hotel : {r.hotel : r \in Request}]
Version == [trip : Trip, number : Nat, proposal : {r.proposal : r \in Request},
            hotel : {r.hotel : r \in Request}]
Approval == [call : Call, event : {r.event : r \in Request}, user : User, session : Session,
             number : Nat, proposal : {r.proposal : r \in Request}]

TypeOK ==
  /\ trips \in [Trip -> Row \cup {NoTrip}]
  /\ versions \subseteq Version /\ approvals \subseteq Approval
  /\ arg \in [Call -> Request \cup {NoRequest}]
  /\ pc \in [Call -> {"idle", "written"} \cup Running \cup Ended]
  /\ seen \in [Call -> Row \cup {NoTrip}]
  /\ found \in [Call -> Approval \cup {NoApproval}]

\* The three tables tell one story, whatever crashes, errors and rollbacks there were:
\* every version has its approval and every approval its version, a trip has a row as
\* soon as it has a version, and the row names a version that is stored.
TablesAgree ==
  /\ \A a \in approvals : \E v \in versions :
       v.trip = <<a.user, a.session>> /\ v.number = a.number /\ v.proposal = a.proposal
  /\ \A v \in versions : \E a \in approvals :
       v.trip = <<a.user, a.session>> /\ v.number = a.number /\ v.proposal = a.proposal
  /\ \A v \in versions : trips[v.trip] # NoTrip
  /\ \A t \in Trip : trips[t] # NoTrip =>
       \E v \in versions : /\ v.trip = t /\ v.number = trips[t].current
                           /\ v.proposal = trips[t].proposal

\* Repeated and concurrent approvals store a proposal once, and a session has one owner.
SavedOnce ==
  /\ \A a, b \in approvals : a.proposal = b.proposal \/ a.event = b.event => a = b
  /\ \A a, b \in approvals : a.session = b.session =>
       a.user = b.user /\ (a.number = b.number => a = b)

\* What a call answered is what it did: committed means that this call stored the
\* draft, already_committed that somebody stored it for the same user, and a failure
\* that this call has left nothing behind.
AnswersAreTrue == \A c \in Call :
  /\ pc[c] \in {"written", "committed"} =>
       \E a \in approvals : a.call = c /\ a.event = arg[c].event /\ a.user = arg[c].user
  /\ pc[c] = "already" =>
       \E a \in approvals : a.proposal = arg[c].proposal /\ a.user = arg[c].user
  /\ pc[c] = "failed" => \A a \in approvals : a.call # c

\* The checks for an incomplete database never find one.
NeverIncomplete == \A c \in Call :
  /\ pc[c] = "approvalOf" => SameProposal(c) # {}
  /\ pc[c] = "replay" => /\ found[c] \in approvals
                         /\ trips[<<found[c].user, found[c].session>>] # NoTrip
                         /\ \E v \in versions : v.proposal = found[c].proposal

\* The three tables hold whole commits only, of the right types, and the answers that
\* commit derives from them never meet a part of one.
StoreIsWhole == TypeOK /\ TablesAgree /\ NeverIncomplete

\* The row of a trip summarises the version it names as the current one.
RowDescribesVersion == \A t \in Trip : trips[t] # NoTrip =>
  \E v \in versions : v.proposal = trips[t].proposal /\ v.hotel = trips[t].hotel

\* A trip is never set back to an earlier version.
VersionsAscend == [][\A t \in Trip : trips'[t].current >= trips[t].current]_vars

\* A call in the terms of TripStore.
StageOf(label) == CASE label = "written" -> "saved"
                    [] label \in Running -> "asked"
                    [] OTHER -> label

Store == INSTANCE TripStore WITH
  asked <- arg,
  stage <- [c \in Call |-> StageOf(pc[c])],
  ledger <- approvals

\* Reading statement by statement and writing in one transaction amounts to saving in
\* one step.
ImplementsStore == Store!Spec

------------------------------------------------------------------------------
(* The inductive invariant behind the theorems of CommitDraftProofs. *)

\* A call that has begun knows its request; what is on record was requested.
Requested ==
  /\ \A c \in Call : pc[c] # "idle" => arg[c] \in Request
  /\ \A a \in approvals : \E r \in Request : a.event = r.event /\ a.proposal = r.proposal

\* A session belongs to one user, and so does its trip.
OneOwner == \A s \in Session, t, u \in User :
  trips[<<t, s>>] # NoTrip /\ trips[<<u, s>>] # NoTrip => t = u

\* What a call carries from one statement to the next.
Carried == \A c \in Call :
  /\ pc[c] = "replay" => found[c].proposal = arg[c].proposal
  /\ pc[c] \in {"idle"} \cup Running => \A a \in approvals : a.call # c
  /\ pc[c] = "write" =>
       /\ arg[c].number > seen[c].current
       /\ seen[c] # NoTrip => trips[TripOf(c)] # NoTrip

IInv == TypeOK /\ Requested /\ TablesAgree /\ OneOwner /\ SavedOnce /\ Carried
          /\ AnswersAreTrue /\ NeverIncomplete

\* With a single process, one call runs at a time and what it has read still holds.
Alone == Exclusive =>
  \A c \in Call : pc[c] \in Running \cup {"written"} =>
    /\ \A d \in Call : pc[d] \in Running \cup {"written"} => d = c
    /\ pc[c] = "write" => seen[c] = trips[TripOf(c)]

Described == Exclusive => RowDescribesVersion
=============================================================================
