------------------------------ MODULE Identity ------------------------------
(***************************************************************************)
(* The identities of users across applications, within one tenant: events  *)
(* create User nodes and may declare a canonicalUserId, IdentityResolver   *)
(* links two nodes of one person, and the intent scorer collects a user's  *)
(* history in three reads while both go on.                                *)
(*                                                                         *)
(* Each query of the graph is one transaction and one step; LINK_IDENTITIES*)
(* and WRITE_EVENT lock the nodes that they set.  How concurrent           *)
(* WRITE_EVENTs may duplicate a node is the subject of module Ingestion.   *)
(***************************************************************************)
EXTENDS Integers, FiniteSets

CONSTANTS Users,       \* the users of the applications
          NativeOf,    \* the nativeUserId of each
          TypeOf,      \* the userIdType its application declares
          Normal,      \* what _normalize_email makes of a nativeUserId
          Events,      \* the events that are ingested
          ActorOf,     \* the user of each
          DeclaredOf,  \* its actor.canonicalUserId, or NoId
          NoId         \* null

NativeIds == {NativeOf[u] : u \in Users}

CanonicalIds == NativeIds \union ({DeclaredOf[e] : e \in Events} \ {NoId})

MatchableTypes == {"email", "sso_subject"}

ASSUME IdentityAssumption ==
  /\ NoId \notin NativeIds
  /\ ActorOf \in [Events -> Users]
  /\ TypeOf \in [Users -> MatchableTypes \union {"app_native_id", "employee_id"}]

VARIABLES present,    \* the users that have a User node
          canonical,  \* the canonicalUserId of each node, NoId if null
          samePerson, \* SAME_PERSON edges
          performed,  \* the events in the graph
          query       \* what the scorer has collected so far

graphVars == <<present, canonical, samePerson, performed>>
vars == <<present, canonical, samePerson, performed, query>>

Stages == {"idle", "history", "canonical", "done"}

Idle == [stage |-> "idle", user |-> NoId, resolved |-> NoId,
         times |-> [e \in Events |-> 0],
         had |-> {}, knew |-> {}]

TypeOK ==
  /\ present \subseteq Users
  /\ canonical \in [Users -> CanonicalIds \union {NoId}]
  /\ samePerson \subseteq present \X present
  /\ performed \subseteq Events
  /\ query \in [stage : Stages,
                user : NativeIds \union {NoId},      \* the user_id asked for
                resolved : CanonicalIds \union {NoId},
                times : [Events -> 0..2],            \* how often an event is in history
                had : SUBSET Events,                 \* performed, and samePerson,
                knew : SUBSET (Users \X Users)]      \* when the query began

Init ==
  /\ present = {}
  /\ canonical = [u \in Users |-> NoId]
  /\ samePerson = {}
  /\ performed = {}
  /\ query = Idle

-----------------------------------------------------------------------------
(***************************************************************************)
(* Writers.                                                                *)
(***************************************************************************)

Coalesce(a, b) == IF a # NoId THEN a ELSE b

\* ON CREATE SET and ON MATCH SET of WRITE_EVENT.
CanonicalAfter(e) == Coalesce(DeclaredOf[e], canonical[ActorOf[e]])

WriteEvent(e) ==
  /\ e \notin performed
  /\ performed' = performed \union {e}
  /\ present' = present \union {ActorOf[e]}
  /\ canonical' = [canonical EXCEPT ![ActorOf[e]] = CanonicalAfter(e)]
  /\ UNCHANGED <<samePerson, query>>

\* _match_method
Matches(a, b) ==
  /\ TypeOf[a] = TypeOf[b]
  /\ TypeOf[a] \in MatchableTypes
  /\ IF TypeOf[a] = "email" THEN Normal[NativeOf[a]] = Normal[NativeOf[b]]
                            ELSE NativeOf[a] = NativeOf[b]

\* Bug: b's canonical id is set only if it has none, and a's is not read from b.
BugLinkCanonical(a, b) ==
  LET id == Coalesce(canonical[a], NativeOf[a])
  IN [canonical EXCEPT ![a] = id, ![b] = Coalesce(@, id)]

LinkCanonical(a, b) ==
  LET id == Coalesce(canonical[a], Coalesce(canonical[b], NativeOf[a]))
  IN [canonical EXCEPT ![a] = id, ![b] = id]

\* Bug: the types of the identifiers are not compared.
BugAttemptLink(a, b) ==
  /\ Normal[NativeOf[a]] = Normal[NativeOf[b]]
  /\ IF {a, b} \subseteq present
     THEN /\ samePerson' = samePerson \union {<<a, b>>}
          /\ canonical' = LinkCanonical(a, b)
     ELSE UNCHANGED <<samePerson, canonical>>
  /\ UNCHANGED <<present, performed, query>>

\* attempt_link of two identities that match; of others it changes nothing.
\* LINK_IDENTITIES finds no row and does nothing if one of them has no node.
\* (The caller is told True in either case.)
AttemptLink(a, b) ==
  /\ Matches(a, b)
  /\ IF {a, b} \subseteq present
     THEN /\ samePerson' = samePerson \union {<<a, b>>}
          /\ canonical' = LinkCanonical(a, b)
     ELSE UNCHANGED <<samePerson, canonical>>
  /\ UNCHANGED <<present, performed, query>>

-----------------------------------------------------------------------------
(***************************************************************************)
(* The scorer's _collect_history.                                          *)
(***************************************************************************)

\* USER_HISTORY matches the nativeUserId in any application.
UserHistory(id) == {e \in performed : NativeOf[ActorOf[e]] = id}

CrossAppHistory(id) == {e \in performed : canonical[ActorOf[e]] = id}

ReadHistory(id) ==
  /\ query.stage = "idle"
  /\ query' = [Idle EXCEPT !.stage = "history", !.user = id,
                           !.times = [e \in Events |-> IF e \in UserHistory(id) THEN 1 ELSE 0],
                           !.had = performed, !.knew = samePerson]
  /\ UNCHANGED graphVars

\* CANONICAL_USER_ID: LIMIT 1 without an order.
ResolvedTo(id) ==
  LET ids == {canonical[u] : u \in {v \in present : NativeOf[v] = id}} \ {NoId}
  IN IF ids = {} THEN {NoId} ELSE ids

ReadCanonical ==
  /\ query.stage = "history"
  /\ \E id \in ResolvedTo(query.user) :
       query' = [query EXCEPT !.resolved = id,
                              !.stage = IF id = NoId THEN "done" ELSE "canonical"]
  /\ UNCHANGED graphVars

\* Bug: the second history is appended as it is.
BugExtra(e) == 1

\* Only the records whose eventId is not in the first history are appended.
Extra(e) == IF query.times[e] = 0 THEN 1 ELSE 0

ReadCrossApp ==
  /\ query.stage = "canonical"
  /\ query' = [query EXCEPT !.stage = "done",
                 !.times = [e \in Events |->
                   @[e] + (IF e \in CrossAppHistory(query.resolved) THEN Extra(e) ELSE 0)]]
  /\ UNCHANGED graphVars

\* The predictions are computed from what was collected, and answered.
Predict ==
  /\ query.stage = "done"
  /\ query' = Idle
  /\ UNCHANGED graphVars

-----------------------------------------------------------------------------

Next ==
  \/ \E e \in Events : WriteEvent(e)
  \/ \E a, b \in Users : a # b /\ AttemptLink(a, b)
  \/ \E id \in NativeIds : ReadHistory(id)
  \/ ReadCanonical
  \/ ReadCrossApp
  \/ Predict

Spec == Init /\ [][Next]_vars

-----------------------------------------------------------------------------
(***************************************************************************)
(* Hypotheses.                                                             *)
(***************************************************************************)

\* No producer sends a canonicalUserId of its own.
NoneDeclared == \A e \in Events : DeclaredOf[e] = NoId

\* Nobody has more than three identities, so that no two groups that were
\* linked apart have to be joined.
FewIdentities == \A u \in Users : Cardinality({v \in Users : Matches(u, v)}) <= 3

\* Users that share a nativeUserId are one person.
PersonsDiffer == \A u, v \in Users : NativeOf[u] = NativeOf[v] => u = v \/ Matches(u, v)

-----------------------------------------------------------------------------
(***************************************************************************)
(* Properties.                                                             *)
(***************************************************************************)

\* Linked nodes have one canonical id, whatever the order of links and events
\* (LINK_IDENTITIES).  Needs NoneDeclared and FewIdentities.
LinkedShareCanonical ==
  \A pair \in samePerson : canonical[pair[1]] = canonical[pair[2]] /\ canonical[pair[1]] # NoId

\* Two users have one canonical id only if their identifiers match: weak types
\* are never linked, not even through others (_match_method).  Needs
\* NoneDeclared and PersonsDiffer.
CanonicalIsOnePerson ==
  \A u, v \in present :
    canonical[u] = canonical[v] /\ canonical[u] # NoId => u = v \/ Matches(u, v)

\* A user that was resolved stays resolved: an event without canonicalUserId
\* does not undo a link (ON MATCH SET in WRITE_EVENT).
StaysResolved ==
  [][\A u \in Users : canonical[u] # NoId => canonical'[u] # NoId]_vars

\* No event is counted twice in a user's history, although one is read by two
\* queries with events and links written in between (_collect_history).
CountedOnce == \A e \in Events : query.times[e] <= 1

\* v is the user that was asked for, or was directly linked to it when the
\* query began.
WasKnown(v) ==
  \E u \in Users :
    /\ NativeOf[u] = query.user
    /\ u = v \/ <<u, v>> \in query.knew \/ <<v, u>> \in query.knew

\* The history has every event that the user, and every user linked to it, had
\* when the query began, whatever is linked or written between the three reads
\* (_collect_history).  Needs NoneDeclared, FewIdentities and PersonsDiffer.
HistoryIsComplete ==
  query.stage = "done" =>
    \A e \in query.had : WasKnown(ActorOf[e]) => query.times[e] >= 1

\* All events of a history are of one person: its users' identifiers match
\* (architecture.md:87, across applications once they are linked).  Needs
\* NoneDeclared and PersonsDiffer.
HistoryIsOnePerson ==
  \A e, f \in Events :
    query.times[e] > 0 /\ query.times[f] > 0 =>
      ActorOf[e] = ActorOf[f] \/ Matches(ActorOf[e], ActorOf[f])

=============================================================================
