---------------------------- MODULE MCForwarding ----------------------------
(***************************************************************************)
(* An instance of Forwarding.  Of the two webhooks one is an update that   *)
(* is an event by its second field only, the other has nothing to forward. *)
(***************************************************************************)
EXTENDS Forwarding

AllCuts == {"time", "fields", "value", "app", "newline"}

MCWebhooks == {"status", "summary"}

Update(items) ==
  [webhookEvent |-> "issue_updated", items |-> items,
   user |-> {"email", "account"}, objects |-> {"issue"}]

MCPayloadOf == [status |-> Update(<<"summary", "status", "assignee">>),
                summary |-> Update(<<"summary">>)]

\* transform over payloads with and without each of their parts
Payloads ==
  [webhookEvent : {"issue_created", "issue_updated", "issue_deleted", "comment_created",
                   "sprint_started", "sprint_closed", "user_updated"},
   items : {<<>>, <<"summary">>, <<"summary", "status", "assignee">>, <<"assignee", "status">>},
   user : SUBSET {"email", "account"},
   objects : SUBSET {"issue", "comment", "sprint"}]

\* An event has all three parts, of a deletion or creation the fields do not
\* matter, and a comment belongs to its own object.
ASSUME TransformIsTotal ==
  \A payload \in Payloads :
    LET event == Transform(payload)
    IN event = None \/ (None \notin {event[1], event[2], event[3]}
                         /\ event[3] \in payload.objects /\ payload.user # {})

=============================================================================
