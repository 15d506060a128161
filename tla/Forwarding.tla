----------------------------- MODULE Forwarding -----------------------------
(***************************************************************************)
(* Two programs that forward what other systems record: the log listener   *)
(* (samples/log-simulator), which follows a file that the log generator    *)
(* appends to, and the Jira connector, which translates the webhooks that  *)
(* Jira delivers.  Each posts single events and neither keeps any state of *)
(* its own over a restart.                                                 *)
(*                                                                         *)
(* The engine commits an event and answers, fails before or after the      *)
(* commit, or goes on after the caller has given up.  Every post has a new *)
(* eventId, and the graph has no duplicated nodes: 409 does not occur.     *)
(***************************************************************************)
EXTENDS Naturals, Sequences, FiniteSets

CONSTANTS
  Lines,          \* bound: how many lines the generator writes
  Cuts,           \* where in a line the generator's buffer may end
  MaxStarts,      \* bound: starts of the listener
  Webhooks,       \* what happens in Jira
  PayloadOf,      \* the payload that Jira delivers of it
  MaxDeliveries,  \* bound: deliveries of one webhook
  None

Request(source, of, try, event) == [source |-> source, of |-> of, try |-> try, event |-> event]

\* What the listener may post: a line, or a piece of it that it takes for one.
LogRequests ==
  {Request("log", line, start, <<piece>>) :
     line \in 1 .. Lines, start \in 1 .. MaxStarts, piece \in {"event", "other_app", "refused"}}

\* Within the time, before the last field, before and within the application's
\* name, and before the end of the line.
Places == {"time", "fields", "value", "app", "newline"}

ASSUME BoundsAssumption ==
  /\ Lines \in Nat /\ MaxStarts \in Nat /\ MaxDeliveries \in Nat
  /\ Cuts \subseteq Places
  /\ None \notin Places /\ None \notin LogRequests

VARIABLES
  deployed,    \* which of the two programs is used: they share nothing
  written,     \* lines that are complete in the file
  torn,        \* where the file ends within the next line, or None
  listener,    \* "down", "reading" or "posting"
  starts,      \* how often the listener was started
  first,       \* the lines that its last start skipped
  position,    \* the lines whose end it has read
  inside,      \* where in the next line its last readline ended, or None
  post,        \* the request it waits for, or None
  printed,     \* requests it reported as rejected
  malformed,   \* pieces of lines it dropped: <<start, line>>
  delivered,   \* deliveries of each webhook
  handling,    \* requests that handlers of the connector wait for
  replies,     \* what the connector answered: <<webhook, delivery, status>>
  confirmed,   \* webhooks of which Jira received a success
  abandoned,   \* requests at the engine that nobody waits for
  stored       \* the requests whose events the engine committed, in order

file == <<written, torn>>
tail == <<listener, starts, first, position, inside, post, printed, malformed>>
jira == <<delivered, handling, replies, confirmed>>
vars == <<deployed, file, tail, jira, abandoned, stored>>

-----------------------------------------------------------------------------
(***************************************************************************)
(* The log.                                                                *)
(***************************************************************************)

\* append_lines: what is flushed ends anywhere while there is more to write,
\* and with a line when the file is closed.
Flush ==
  /\ deployed = "listener" /\ written < Lines
  /\ \E upto \in written .. Lines, cut \in Cuts \union {None} :
       /\ upto > written \/ (torn = None /\ cut # None)
       /\ upto = Lines => cut = None
       /\ written' = upto
       /\ torn' = cut
  /\ UNCHANGED <<deployed, tail, jira, abandoned, stored>>

\* The piece of a line before or after a cut, by what parse_log_line and the
\* engine make of it: too few parts, an application whose name is cut short,
\* no application or a time that is none, or the event of the line.
Beginning(cut) ==
  CASE cut \in {"time", "fields"} -> "malformed"
    [] cut = "value"              -> "refused"
    [] cut = "app"                -> "other_app"
    [] cut = "newline"            -> "event"

Rest(cut) == IF cut = "time" THEN "refused" ELSE "malformed"

-----------------------------------------------------------------------------
(***************************************************************************)
(* The listener.                                                           *)
(***************************************************************************)

\* main and the beginning of tail_and_forward
Start ==
  /\ deployed = "listener" /\ listener = "down" /\ starts < MaxStarts
  /\ listener' = "reading"
  /\ starts' = starts + 1
  /\ \E from_start \in BOOLEAN :
       /\ position' = IF from_start THEN 0 ELSE written
       /\ inside' = IF from_start THEN None ELSE torn
  /\ first' = position'
  /\ UNCHANGED <<deployed, file, post, printed, malformed, jira, abandoned, stored>>

\* _handle_line: what is malformed is dropped, all else is posted.
Handle(line, piece) ==
  IF piece = "malformed"
  THEN /\ malformed' = malformed \union {<<starts, line>>}
       /\ UNCHANGED <<listener, post>>
  ELSE /\ post' = Request("log", line, starts, <<piece>>)
       /\ listener' = "posting"
       /\ UNCHANGED malformed

\* Bug: the rest of a line is read together with its beginning once more.
BugReadLine ==
  /\ listener = "reading" /\ position < written
  /\ Handle(position + 1, "event")
  /\ position' = position + 1
  /\ inside' = None
  /\ UNCHANGED <<deployed, file, starts, first, printed, jira, abandoned, stored>>

\* readline returns a line or what is left of it.
ReadLine ==
  /\ listener = "reading" /\ position < written
  /\ Handle(position + 1, IF inside = None THEN "event" ELSE Rest(inside))
  /\ position' = position + 1
  /\ inside' = None
  /\ UNCHANGED <<deployed, file, starts, first, printed, jira, abandoned, stored>>

\* readline at the end of the file returns the beginning of a line.
ReadTorn ==
  /\ listener = "reading" /\ position = written
  /\ torn # None /\ inside = None
  /\ Handle(position + 1, Beginning(torn))
  /\ inside' = torn
  /\ UNCHANGED <<deployed, file, starts, first, position, printed, jira, abandoned, stored>>

\* What the engine can have done with a request when it answers: an event
\* that is no event of the schema or has no time is never committed.
Commit(request) ==
  /\ request.event # <<"refused">>
  /\ stored' = Append(stored, request)

\* Bug: only the client's errors are printed.
BugOnResponse ==
  /\ listener = "posting"
  /\ \/ Commit(post) /\ UNCHANGED printed
     \/ UNCHANGED <<stored, printed>>
  /\ listener' = "reading"
  /\ post' = None
  /\ UNCHANGED <<deployed, file, starts, first, position, inside, malformed, jira, abandoned>>

\* _post_event: 201, or any other status, which is printed; a 500 may follow
\* the commit.
OnResponse ==
  /\ listener = "posting"
  /\ \/ Commit(post) /\ UNCHANGED printed
     \/ /\ Commit(post) \/ UNCHANGED stored
        /\ printed' = printed \union {post}
  /\ listener' = "reading"
  /\ post' = None
  /\ UNCHANGED <<deployed, file, starts, first, position, inside, malformed, jira, abandoned>>

\* A timeout or a lost connection, which no one catches, and Ctrl-C.  A request
\* that reached the engine goes on there.
Stop ==
  /\ listener \in {"reading", "posting"}
  /\ listener' = "down"
  /\ post' = None
  /\ \/ UNCHANGED abandoned
     \/ post # None /\ abandoned' = abandoned \union {post}
  /\ UNCHANGED <<deployed, file, starts, first, position, inside, printed, malformed, jira, stored>>

-----------------------------------------------------------------------------
(***************************************************************************)
(* The Jira connector.                                                     *)
(***************************************************************************)

\* _CHANGELOG_FIELD_ACTIONS
FieldActions == [status |-> "update_issue_status", assignee |-> "assign_issue"]

\* _resolve_issue_updated_action: the first field that is mapped.
UpdatedAction(items) ==
  LET mapped == {k \in DOMAIN items : items[k] \in DOMAIN FieldActions}
  IN IF mapped = {} THEN None
     ELSE FieldActions[items[CHOOSE k \in mapped : \A j \in mapped : k <= j]]

EventActions ==
  [issue_created |-> "create_issue", issue_deleted |-> "delete_issue",
   comment_created |-> "add_comment",
   sprint_started |-> "start_sprint", sprint_closed |-> "close_sprint"]

\* _resolve_action
ActionOf(payload) ==
  CASE payload.webhookEvent = "issue_updated"         -> UpdatedAction(payload.items)
    [] payload.webhookEvent \in DOMAIN EventActions   -> EventActions[payload.webhookEvent]
    [] OTHER                                          -> None

\* _resolve_actor: an email before an account.
UserIdType(payload) ==
  CASE "email" \in payload.user                             -> "email"
    [] "email" \notin payload.user /\ "account" \in payload.user -> "app_native_id"
    [] OTHER                                                -> None

\* _resolve_object, by what the payload has.
ObjectType(payload) ==
  LET type == CASE payload.webhookEvent = "comment_created" -> "comment"
                [] payload.webhookEvent \in {"sprint_started", "sprint_closed"} -> "sprint"
                [] OTHER -> "issue"
  IN IF type \in payload.objects THEN type ELSE None

\* transform
Transform(payload) ==
  IF None \in {ActionOf(payload), UserIdType(payload), ObjectType(payload)} THEN None
  ELSE <<ActionOf(payload), UserIdType(payload), ObjectType(payload)>>

\* Jira delivers a webhook again until it has an answer.
Deliver(w) ==
  /\ deployed = "connector" /\ delivered[w] < MaxDeliveries /\ w \notin confirmed
  /\ delivered' = [delivered EXCEPT ![w] = @ + 1]
  /\ LET event == Transform(PayloadOf[w])
     IN IF event = None
        THEN /\ replies' = replies \union {<<w, delivered'[w], "ignored">>}
             /\ confirmed' \in {confirmed, confirmed \union {w}}
             /\ UNCHANGED handling
        ELSE /\ handling' = handling \union {Request("jira", w, delivered'[w], event)}
             /\ UNCHANGED <<replies, confirmed>>
  /\ UNCHANGED <<deployed, file, tail, abandoned, stored>>

\* Bug: the status of the response is not looked at.
BugForward(request) ==
  /\ Commit(request) \/ UNCHANGED stored
  /\ replies' = replies \union {<<request.of, request.try, "forwarded">>}
  /\ confirmed' \in {confirmed, confirmed \union {request.of}}
  /\ handling' = handling \ {request}
  /\ UNCHANGED <<deployed, file, tail, delivered, abandoned>>

\* handle, with a 2xx; Jira may not receive the answer.
Forward(request) ==
  /\ Commit(request)
  /\ replies' = replies \union {<<request.of, request.try, "forwarded">>}
  /\ confirmed' \in {confirmed, confirmed \union {request.of}}
  /\ handling' = handling \ {request}
  /\ UNCHANGED <<deployed, file, tail, delivered, abandoned>>

\* handle raises: raise_for_status, or the transport's error.
Raise(request) ==
  /\ replies' = replies \union {<<request.of, request.try, "error">>}
  /\ handling' = handling \ {request}
  /\ \/ /\ Commit(request) \/ UNCHANGED stored
        /\ UNCHANGED abandoned
     \/ /\ abandoned' = abandoned \union {request}
        /\ UNCHANGED stored
  /\ UNCHANGED <<deployed, file, tail, delivered, confirmed>>

-----------------------------------------------------------------------------

\* The engine ends what nobody waits for.
CommitAbandoned(request) ==
  /\ Commit(request) \/ UNCHANGED stored
  /\ abandoned' = abandoned \ {request}
  /\ UNCHANGED <<deployed, file, tail, jira>>

Init ==
  /\ deployed \in {"listener", "connector"}
  /\ written = 0 /\ torn = None
  /\ listener = "down" /\ starts = 0 /\ first = 0 /\ position = 0
  /\ inside = None /\ post = None /\ printed = {} /\ malformed = {}
  /\ delivered = [w \in Webhooks |-> 0]
  /\ handling = {} /\ replies = {} /\ confirmed = {}
  /\ abandoned = {} /\ stored = <<>>

Next ==
  \/ Flush
  \/ Start \/ ReadLine \/ ReadTorn \/ OnResponse \/ Stop
  \/ \E w \in Webhooks : Deliver(w)
  \/ \E request \in handling : Forward(request) \/ Raise(request)
  \/ \E request \in abandoned : CommitAbandoned(request)

Spec == Init /\ [][Next]_vars

-----------------------------------------------------------------------------
(***************************************************************************)
(* Properties.                                                             *)
(***************************************************************************)

Committed == {stored[k] : k \in DOMAIN stored}

\* Between two starts of the listener no line becomes two events, and the
\* events are committed in the order of the lines, although lines are read in
\* pieces and the engine may end a request after the listener has died
\* (tail_and_forward, _handle_line, _post_event).
LinesForwardedOnce ==
  \A i, j \in DOMAIN stored :
    i < j /\ stored[i].source = "log" /\ stored[j].source = "log"
      /\ stored[i].try = stored[j].try
      => stored[i].of < stored[j].of

\* Each line that the running listener has passed has an event in the graph or
\* was printed as rejected, unless a piece of it was malformed: it waits for
\* nothing else and loses nothing silently (_handle_line, _post_event).
LinesAccounted ==
  listener # "down" =>
    \A line \in first + 1 .. position :
      \/ <<starts, line>> \in malformed
      \/ \E request \in Committed \union printed \union {post} :
           request # None /\ request.source = "log"
             /\ request.of = line /\ request.try = starts

\* The connector's answers to Jira: what it calls forwarded is stored, once
\* for each delivery and as the transformer reads the payload; what it ignores
\* never is (handle).
RepliesAreTrue ==
  \A reply \in replies :
    LET w      == reply[1]
        copies == {k \in DOMAIN stored : stored[k].source = "jira" /\ stored[k].of = w
                                           /\ stored[k].try = reply[2]}
    IN /\ Cardinality(copies) <= 1
       /\ reply[3] = "forwarded" =>
            \E k \in copies : stored[k].event = Transform(PayloadOf[w])
       /\ reply[3] = "ignored" =>
            \A request \in Committed : ~ (request.source = "jira" /\ request.of = w)

=============================================================================
