---------------------------- MODULE MCCommitDraft ----------------------------
(***************************************************************************)
(* Instances of CommitDraft for TLC.                                       *)
(***************************************************************************)
EXTENDS CommitDraft, TLC

Ask(user, session, proposal, number, hotel, event) ==
  [user |-> user, session |-> session, proposal |-> proposal, number |-> number,
   hotel |-> hotel, event |-> event]

\* One plan: two approvals of its first version (client_request_id differs), its
\* second and its third version, a rival second version, which another process got from
\* the same checkpoint.
OnePlan == {Ask("ann", "s1", "p1", 1, "h1", "e1"), Ask("ann", "s1", "p1", 1, "h1", "e1b"),
            Ask("ann", "s1", "p2", 2, "h2", "e2"), Ask("ann", "s1", "p2b", 2, "h1", "e2b"),
            Ask("ann", "s1", "p3", 3, "h1", "e3")}

\* Other users: the same proposal made for bob, a session whose checkpoints were lost
\* and which bob has started again, and a user without a row.
Others == {Ask("bob", "s2", "p1", 1, "h1", "e1"), Ask("bob", "s1", "p4", 1, "h2", "e4"),
           Ask("eve", "s3", "p5", 1, "h1", "e5")}

AllRequests == OnePlan \cup Others
Calls == Permutations(Call)
=============================================================================
