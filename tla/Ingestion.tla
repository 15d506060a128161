------------------------------ MODULE Ingestion ------------------------------
(***************************************************************************)
(* One event's way into the graph: the SDK's emit() with its retries, an   *)
(* unreliable HTTP hop, the POST /v1/events handler, and the WRITE_EVENT   *)
(* transaction that merges the User, Application and BusinessObject nodes  *)
(* and creates the PERFORMED edge.                                         *)
(*                                                                         *)
(* A request is one HTTP attempt, <<call, attempt number>>.  A timed-out   *)
(* attempt stays in flight while the SDK sends the next one, so attempts   *)
(* of one call, and calls of many producers, interleave in the database.   *)
(*                                                                         *)
(* The database is external.  What the code relies on is modelled as the   *)
(* schema in INIT_STATEMENTS makes it: PERFORMED.eventId is unique, node   *)
(* keys are only indexed, so a MERGE that finds no committed node creates  *)
(* one even while another transaction is doing the same.                   *)
(***************************************************************************)
EXTENDS Integers, FiniteSets

CONSTANTS Calls,         \* emit() calls made by the producers
          EventOf,       \* the event each call sends, as prepared by the SDK
          Seeded,        \* the [label, key] pairs that already have one node
          Seed,          \* the author of those nodes, no request
          MaxRetries,    \* ContextEngineClient(max_retries=...)
          BackoffSteps,  \* Len(BACKOFF_SECONDS), 3 in the code
          MaxCrashes     \* bound on restarts of the API process

Requests == Calls \X (0..MaxRetries)

Event(r) == EventOf[r[1]]

Labels == {"User", "Application", "BusinessObject"}

\* The property maps of the three MERGE patterns of WRITE_EVENT.
\* objectType and objectId are folded into objectId.
Key(l, e) ==
  CASE l = "User" -> <<e.tenantId, e.applicationId, e.nativeUserId>>
    [] l = "Application" -> <<e.tenantId, e.applicationId, e.applicationInstanceId>>
    [] l = "BusinessObject" -> <<e.tenantId, e.applicationId, e.objectId>>

Keys == {Key(l, EventOf[c]) : l \in Labels, c \in Calls}

\* A node is told from its twins by the transaction that created it.
Nodes == [label : Labels, key : Keys, by : Requests \union {Seed}]

Node(l, r) == [label |-> l, key |-> Key(l, Event(r)), by |-> r]

SeedNode(s) == [label |-> s.label, key |-> s.key, by |-> Seed]

Edges == [by : Requests, ends : [Labels -> Nodes]]

ASSUME IngestionAssumption ==
  /\ MaxRetries \in Nat
  /\ BackoffSteps \in Nat
  /\ MaxCrashes \in Nat
  /\ \A c \in Calls : EventOf[c].eventTimestamp \in Nat
  /\ Seeded \subseteq [label : Labels, key : Keys]
  /\ Seed \notin Requests

-----------------------------------------------------------------------------

VARIABLES call,       \* what the producer sees of each emit()
          attempt,    \* the loop variable of _send_with_retry
          request,    \* where each HTTP attempt is
          bound,      \* the nodes each open transaction has bound, by label
          nodes,      \* committed nodes
          performed,  \* committed PERFORMED edges
          lastSeen,   \* the lastSeen property of committed nodes
          ingested,   \* events_ingested_total of the running process
          crashes     \* restarts of the API so far

clientVars == <<call, attempt>>
graphVars == <<nodes, performed, lastSeen>>
vars == <<call, attempt, request, bound, nodes, performed, lastSeen,
          ingested, crashes>>

Finished == {"accepted", "duplicate", "raised", "indexError"}

CallStates == {"idle", "waiting", "backoff"} \union Finished

Replies == {"201", "400", "409", "429", "503"}

\* The statements of WRITE_EVENT in order; a phase names the one to run next.
OpenPhases == Labels \union {"Create", "Commit"}

Phases == {"unsent", "transit", "committed", "closed"} \union OpenPhases \union Replies

NoRows == [l \in Labels |-> {}]

TypeOK ==
  /\ call \in [Calls -> CallStates]
  /\ attempt \in [Calls -> 0..MaxRetries]
  /\ request \in [Requests -> Phases]
  /\ bound \in [Requests -> [Labels -> SUBSET Nodes]]
  /\ nodes \subseteq Nodes
  /\ performed \subseteq Edges
  /\ lastSeen \in [nodes -> Nat]
  /\ ingested \in Nat
  /\ crashes \in 0..MaxCrashes

Init ==
  /\ call = [c \in Calls |-> "idle"]
  /\ attempt = [c \in Calls |-> 0]
  /\ request = [r \in Requests |-> "unsent"]
  /\ bound = [r \in Requests |-> NoRows]
  /\ nodes = {SeedNode(s) : s \in Seeded}
  /\ performed = {}
  /\ lastSeen = [n \in nodes |-> 0]
  /\ ingested = 0
  /\ crashes = 0

-----------------------------------------------------------------------------
(***************************************************************************)
(* The SDK: ContextEngineClient.emit and _send_with_retry.                 *)
(***************************************************************************)

Current(c) == <<c, attempt[c]>>

\* emit(): the eventId is chosen here, once for all attempts.
Emit(c) ==
  /\ call[c] = "idle"
  /\ call' = [call EXCEPT ![c] = "waiting"]
  /\ request' = [request EXCEPT ![Current(c)] = "transit"]
  /\ UNCHANGED <<attempt, bound, graphVars, ingested, crashes>>

\* The sleep is over: the next iteration of the loop posts the same event.
Retry(c) ==
  /\ call[c] = "backoff"
  /\ call' = [call EXCEPT ![c] = "waiting"]
  /\ attempt' = [attempt EXCEPT ![c] = @ + 1]
  /\ request' = [request EXCEPT ![<<c, attempt[c] + 1>>] = "transit"]
  /\ UNCHANGED <<bound, graphVars, ingested, crashes>>

\* A failed attempt: sleep, unless it was the last.  The sleep reads
\* BACKOFF_SECONDS[attempt], which has BackoffSteps entries.
AfterFailure(c) ==
  IF attempt[c] = MaxRetries THEN "raised"
  ELSE IF attempt[c] < BackoffSteps THEN "backoff" ELSE "indexError"

\* Bug: an HTTP client without a timeout.
BugNoTimeout(c) == FALSE /\ UNCHANGED vars

\* httpx raises a TransportError: timeout, refused or reset connection.  The
\* server, if the request ever reached it, goes on.
TransportError(c) ==
  /\ call[c] = "waiting"
  /\ call' = [call EXCEPT ![c] = AfterFailure(c)]
  /\ UNCHANGED <<attempt, request, bound, graphVars, ingested, crashes>>

\* Bug: no raise_for_status().
BugIgnoresStatus(c, status) == IF status = "409" THEN "duplicate" ELSE "accepted"

\* What the loop does with a response: return it, raise it, or treat it as a
\* failed attempt.
OnResponse(c, status) ==
  CASE status = "201" -> "accepted"
    [] status = "409" -> "duplicate"
    [] status \in {"400", "429"} -> "raised"
    [] status = "503" -> AfterFailure(c)

Respond(c) ==
  LET r == Current(c) IN
  /\ call[c] = "waiting"
  /\ request[r] \in Replies
  /\ call' = [call EXCEPT ![c] = OnResponse(c, request[r])]
  /\ request' = [request EXCEPT ![r] = "closed"]
  /\ UNCHANGED <<attempt, bound, graphVars, ingested, crashes>>

\* A request, or a response, is lost on the way.
Lose(r) ==
  /\ request[r] \in {"transit"} \union Replies
  /\ request' = [request EXCEPT ![r] = "closed"]
  /\ UNCHANGED <<clientVars, bound, graphVars, ingested, crashes>>

-----------------------------------------------------------------------------
(***************************************************************************)
(* The handler and its transaction.                                        *)
(***************************************************************************)

\* The transaction of r ends here and releases what it held.
Leave(r, phase) ==
  /\ request' = [request EXCEPT ![r] = phase]
  /\ bound' = [bound EXCEPT ![r] = NoRows]

\* The JSON Schema and the clock-skew check.  An event too far in the future
\* stays too far for as long as its attempts last.
Validates(r) == Event(r).valid

\* Bug: the counter is incremented before the write.
BugReceiveCounts(r) ==
  /\ request[r] = "transit"
  /\ request' = [request EXCEPT ![r] = IF Validates(r) THEN "User" ELSE "400"]
  /\ ingested' = ingested + 1
  /\ UNCHANGED <<clientVars, bound, graphVars, crashes>>

\* validator.validate: an invalid event is answered 400 and never written.
\* A valid one opens the transaction; stamping it changes no shared state.
Receive(r) ==
  /\ request[r] = "transit"
  /\ request' = [request EXCEPT ![r] = IF Validates(r) THEN "User" ELSE "400"]
  /\ UNCHANGED <<clientVars, bound, graphVars, ingested, crashes>>

\* The rate limiter, in front of the handler, answers 429.
Throttle(r) ==
  /\ request[r] = "transit"
  /\ request' = [request EXCEPT ![r] = "429"]
  /\ UNCHANGED <<clientVars, bound, graphVars, ingested, crashes>>

Matches(l, r) == {n \in nodes : n.label = l /\ n.key = Key(l, Event(r))}

\* Bug: a transaction holds what it is going to match from its start.
BugLocked(l, s) == Matches(l, s)

\* ON MATCH SET writes the User and BusinessObject nodes it matched, which
\* locks them until the transaction ends.
Locked(l, s) == IF l = "Application" THEN {} ELSE bound[s][l]

IsOpen(s) == request[s] \in OpenPhases

NextPhase(l) ==
  CASE l = "User" -> "Application"
    [] l = "Application" -> "BusinessObject"
    [] l = "BusinessObject" -> "Create"

\* Bug: a match does not wait for the node's lock.
BugMergeUnlocked(l, r) ==
  LET found == Matches(l, r) IN
  /\ request[r] = l
  /\ bound' = [bound EXCEPT ![r][l] = IF found = {} THEN {Node(l, r)} ELSE found]
  /\ request' = [request EXCEPT ![r] = NextPhase(l)]
  /\ UNCHANGED <<clientVars, graphVars, ingested, crashes>>

\* MERGE: one row per committed match, or the row of a new node.
Merge(l, r) ==
  LET found == Matches(l, r) IN
  /\ request[r] = l
  /\ \A s \in Requests : s # r /\ IsOpen(s) => Locked(l, s) \intersect found = {}
  /\ bound' = [bound EXCEPT ![r][l] = IF found = {} THEN {Node(l, r)} ELSE found]
  /\ request' = [request EXCEPT ![r] = NextPhase(l)]
  /\ UNCHANGED <<clientVars, graphVars, ingested, crashes>>

\* The index entry of an uncommitted edge makes a second writer of the same
\* eventId wait.
IdReserved(r) ==
  \E s \in Requests :
    /\ s # r
    /\ request[s] = "Commit"
    /\ Event(s).eventId = Event(r).eventId

\* Bug: INIT_STATEMENTS has no unique_event.
BugIdTaken(r) == FALSE

IdTaken(r) == \E p \in performed : Event(p.by).eventId = Event(r).eventId

SingleRow(r) == \A l \in Labels : \A m, n \in bound[r][l] : m = n

\* unique_event: CREATE runs once per row, all with the same eventId.
ViolatesConstraint(r) == IdTaken(r) \/ ~SingleRow(r)

CreatePerformed(r) ==
  /\ request[r] = "Create"
  /\ ~IdReserved(r)
  /\ ~ViolatesConstraint(r)
  /\ request' = [request EXCEPT ![r] = "Commit"]
  /\ UNCHANGED <<clientVars, bound, graphVars, ingested, crashes>>

\* ConstraintError becomes DuplicateEventError becomes 409.
RejectDuplicate(r) ==
  /\ request[r] = "Create"
  /\ ~IdReserved(r)
  /\ ViolatesConstraint(r)
  /\ Leave(r, "409")
  /\ UNCHANGED <<clientVars, graphVars, ingested, crashes>>

EdgeOf(r) == [by |-> r, ends |-> [l \in Labels |-> CHOOSE n \in bound[r][l] : TRUE]]

Touched(r) == {EdgeOf(r).ends[l] : l \in Labels}

\* Bug: ON MATCH SET without the CASE, the last writer wins.
BugSeenLastWriter(n, r) ==
  IF n \in Touched(r) /\ n.label # "Application" THEN Event(r).eventTimestamp
  ELSE IF n \in nodes THEN lastSeen[n] ELSE 0

\* ON CREATE SET lastSeen; ON MATCH SET it only if the event is later.
\* (firstSeen is the creator's timestamp, Event(n.by).eventTimestamp.)
\* Application nodes carry no lastSeen: theirs stays 0.
Seen(n, r) ==
  LET before == IF n \in nodes THEN lastSeen[n] ELSE 0
      now == Event(r).eventTimestamp
  IN IF n \in Touched(r) /\ n.label # "Application" /\ now > before
     THEN now ELSE before

Commit(r) ==
  /\ request[r] = "Commit"
  /\ performed' = performed \union {EdgeOf(r)}
  /\ nodes' = nodes \union Touched(r)
  /\ lastSeen' = [n \in nodes' |-> Seen(n, r)]
  /\ Leave(r, "committed")
  /\ UNCHANGED <<clientVars, ingested, crashes>>

\* write_event has returned: events_ingested_total.inc() and the 201.
Acknowledge(r) ==
  /\ request[r] = "committed"
  /\ ingested' = ingested + 1
  /\ request' = [request EXCEPT ![r] = "201"]
  /\ UNCHANGED <<clientVars, bound, graphVars, crashes>>

\* Bug: each MERGE commits on its own, so a failure keeps the nodes.
BugErrorKeepsNodes(r) ==
  /\ IsOpen(r)
  /\ nodes' = nodes \union UNION {bound[r][l] : l \in Labels}
  /\ lastSeen' = [n \in nodes' |-> IF n \in nodes THEN lastSeen[n] ELSE 0]
  /\ Leave(r, "503")
  /\ UNCHANGED <<clientVars, performed, ingested, crashes>>

\* The connection to Neo4j breaks.  Before the commit the transaction is
\* rolled back; after it only the acknowledgement is lost, and the driver
\* does not retry an incomplete commit.  Either way the handler answers 5xx.
DatabaseError(r) ==
  /\ IsOpen(r) \/ request[r] = "committed"
  /\ Leave(r, "503")
  /\ UNCHANGED <<clientVars, graphVars, ingested, crashes>>

\* The API process dies and restarts: its handlers, their transactions and
\* its counters are gone.
Crash ==
  /\ crashes < MaxCrashes
  /\ LET gone == {r \in Requests : IsOpen(r) \/ request[r] = "committed"} IN
     /\ request' = [r \in Requests |-> IF r \in gone THEN "closed" ELSE request[r]]
     /\ bound' = [r \in Requests |-> IF r \in gone THEN NoRows ELSE bound[r]]
  /\ ingested' = 0
  /\ crashes' = crashes + 1
  /\ UNCHANGED <<clientVars, graphVars>>

-----------------------------------------------------------------------------

Server(r) ==
  \/ \E l \in Labels : Merge(l, r)
  \/ CreatePerformed(r)
  \/ RejectDuplicate(r)
  \/ Commit(r)
  \/ Acknowledge(r)

\* Every emit() has returned or raised and nothing is in flight.
Quiescent ==
  /\ \A c \in Calls : call[c] \in Finished
  /\ \A r \in Requests : request[r] \in {"unsent", "closed"}
  /\ UNCHANGED vars

Next ==
  \/ \E c \in Calls : Emit(c) \/ Retry(c) \/ TransportError(c) \/ Respond(c)
  \/ \E r \in Requests : Lose(r) \/ Receive(r) \/ Throttle(r) \/ Server(r)
                           \/ DatabaseError(r)
  \/ Crash
  \/ Quiescent

Spec == Init /\ [][Next]_vars

\* httpx's timeout ends every wait and the sleep ends every backoff; Neo4j
\* runs every statement that is not waiting for a lock.  Messages need not
\* arrive and nobody has to call emit().
Fairness ==
  /\ \A c \in Calls : WF_vars(Retry(c)) /\ WF_vars(TransportError(c))
  /\ \A r \in Requests : WF_vars(Server(r))

FairSpec == Spec /\ Fairness

-----------------------------------------------------------------------------
(***************************************************************************)
(* Hypotheses about the events, under which the stronger properties hold.  *)
(***************************************************************************)

\* No two calls send the same eventId: the SDK's uuid4 default.
DistinctIds ==
  \A c, d \in Calls : EventOf[c].eventId = EventOf[d].eventId => c = d

IsSeeded(l, k) == [label |-> l, key |-> k] \in Seeded

\* Two calls that may have to create the same node are made by one user whose
\* node exists: its lock puts their transactions one after the other.
RaceFree ==
  \A c, d \in Calls : \A l \in Labels :
    LET user == Key("User", EventOf[c]) IN
    c # d /\ Key(l, EventOf[c]) = Key(l, EventOf[d]) =>
      \/ IsSeeded(l, Key(l, EventOf[c]))
      \/ user = Key("User", EventOf[d]) /\ IsSeeded("User", user)

-----------------------------------------------------------------------------
(***************************************************************************)
(* Safety.                                                                 *)
(***************************************************************************)

StoredBy(c) == \E p \in performed : p.by[1] = c

\* No eventId is on two PERFORMED edges, whichever attempts and whichever
\* calls raced to write it (WRITE_EVENT against unique_event).
EventIdUnique ==
  \A p, q \in performed : Event(p.by).eventId = Event(q.by).eventId => p = q

\* A call that got 201 has its own event in the graph, although the handler
\* answers after the commit and several attempts may be running (ingest_event).
AcknowledgedIsStored ==
  \A c \in Calls : call[c] = "accepted" => StoredBy(c)

\* A call that emit() reports as successful, 409 included, has its own event
\* in the graph (_send_with_retry returning on 409).  Needs DistinctIds and
\* RaceFree.
SuccessIsStored ==
  \A c \in Calls : call[c] \in {"accepted", "duplicate"} => StoredBy(c)

\* MERGE leaves at most one node per label and key.  Needs RaceFree.
NodeKeysUnique ==
  \A m, n \in nodes : m.label = n.label /\ m.key = n.key => m = n

\* A transaction that was rejected, failed or died leaves no node behind:
\* every node that was not there at the start is an end of the edge that the
\* same transaction created (one WRITE_EVENT per managed transaction).
NoOrphanNodes ==
  \A n \in nodes :
    n.by # Seed => \E p \in performed : p.by = n.by /\ p.ends[n.label] = n

\* lastSeen of a user or an object is the latest timestamp of its events, in
\* whatever order they arrive and however many writers update it.
LastSeenIsLatest ==
  \A n \in nodes :
    LET times == {Event(p.by).eventTimestamp :
                    p \in {q \in performed : q.ends[n.label] = n}} \union {0}
    IN n.label # "Application" =>
         lastSeen[n] \in times /\ \A t \in times : t <= lastSeen[n]

\* events_ingested_total never exceeds what is in the graph; a lost commit
\* acknowledgement or a restart only makes it fall behind (_ingest_one).
CountedIsStored == ingested <= Cardinality(performed)

\* A write lock on a user or an object has one owner.
LocksExclusive ==
  \A r, s \in Requests : \A l \in Labels :
    r # s /\ IsOpen(r) /\ IsOpen(s) => Locked(l, r) \intersect Locked(l, s) = {}

-----------------------------------------------------------------------------
(***************************************************************************)
(* Liveness, and what ingestion implements.                                *)
(***************************************************************************)

\* Every emit() returns or raises: the retry loop and its waits end.
EmitTerminates == \A c \in Calls : (call[c] # "idle") ~> (call[c] \in Finished)

\* No transaction waits forever for a lock or an index entry: WRITE_EVENT
\* takes its locks in one order and every attempt takes the same one.
TransactionsFinish == \A r \in Requests : IsOpen(r) ~> ~IsOpen(r)

\* The eventIds of the abstract store.
EventIds == {EventOf[c].eventId : c \in Calls}

Told(c) ==
  CASE call[c] \in {"accepted", "duplicate"} -> call[c]
    [] call[c] \in {"raised", "indexError"} -> "failed"
    [] OTHER -> "pending"

\* The refinement mapping: what is stored and what callers were told.
Store == INSTANCE EventStore WITH
           IdOf <- [c \in Calls |-> EventOf[c].eventId],
           stored <- {p.by[1] : p \in performed},
           outcome <- [c \in Calls |-> Told(c)]

\* Ingestion implements EventStore: every step persists one new eventId,
\* tells one caller something true, or changes nothing visible.
\* Needs RaceFree.
ImplementsStore == Store!StoreSpec

=============================================================================
