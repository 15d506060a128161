---------------------------- MODULE MCIngestion ----------------------------
(***************************************************************************)
(* Small instances of Ingestion.  Every instance has one tenant and one    *)
(* application; what differs is who shares a user or an object with whom,  *)
(* and which nodes exist beforehand.                                       *)
(***************************************************************************)
EXTENDS Ingestion, TLC

CONSTANTS c1, c2, c3

Sent(id, tenant, user, object, time, valid) ==
  [eventId |-> id, tenantId |-> tenant, applicationId |-> "jira",
   applicationInstanceId |-> "prod", nativeUserId |-> user,
   objectId |-> object, eventTimestamp |-> time, valid |-> valid]

\* One user's two events on one new object, the older one perhaps last.
OneUserOneObject ==
  c1 :> Sent("e1", "acme", "ana", "T-1", 2, TRUE)
    @@ c2 :> Sent("e2", "acme", "ana", "T-1", 1, TRUE)

\* Two users' first events on one new object, and a third on it by one of them.
TwoUsersOneObject ==
  c1 :> Sent("e1", "acme", "ana", "T-1", 1, TRUE)
    @@ c2 :> Sent("e2", "acme", "bob", "T-1", 2, TRUE)
    @@ c3 :> Sent("e3", "acme", "ana", "T-1", 3, TRUE)

\* Only that user's node exists.
KnownUser == {[label |-> "User", key |-> <<"acme", "jira", "ana">>]}

\* A known user's valid event and an invalid one.
OneValidOneInvalid ==
  c1 :> Sent("e1", "acme", "ana", "T-1", 1, TRUE)
    @@ c2 :> Sent("e2", "acme", "ana", "T-1", 2, FALSE)

=============================================================================
