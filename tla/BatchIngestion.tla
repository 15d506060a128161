---------------------------- MODULE BatchIngestion ----------------------------
(***************************************************************************)
(* POST /v1/events/batch and the loaders that use it.                      *)
(*                                                                         *)
(* A loader (samples/data/seed_events.py, samples/shops/generate.py) posts *)
(* the batches of its file one after the other and dies at the first answer*)
(* that is not 200; an operator starts it again, from the first batch.  The*)
(* handler of a batch that the loader gave up on may still be running.     *)
(*                                                                         *)
(* One event's write is a single step here: what happens inside the        *)
(* transaction, and when a write may fail although its eventId is free, is *)
(* the subject of module Ingestion, which refines EventStore.              *)
(***************************************************************************)
EXTENDS Integers, Sequences, FiniteSets

CONSTANTS Loaders,            \* the processes that post batches
          EventIds,           \* the eventIds in their files
          BatchesOf,          \* the batches each posts, cut from its file
          Tool,               \* which loader program each is
          MaxBatchSize,       \* _MAX_BATCH_SIZE, 100 in the code
          MaxFailurePercent,  \* _MAX_BATCH_FAILURE_RATIO, 10 in the code
          MaxRuns,            \* bound on the times a loader is started
          MaxCrashes          \* bound on restarts of the API process

\* The batches that a loader cuts from its file, each of at most size events.
Chunks(file, size) ==
  [k \in 1..((Len(file) + size - 1) \div size) |->
     SubSeq(file, (k - 1) * size + 1,
            IF k * size < Len(file) THEN k * size ELSE Len(file))]

\* A post is one batch in one run of its loader.
Posts == UNION {{l} \X (1..MaxRuns) \X DOMAIN BatchesOf[l] : l \in Loaders}

Batch(p) == BatchesOf[p[1]][p[3]]

Items == UNION {{p} \X DOMAIN Batch(p) : p \in Posts}

EventOf(x) == Batch(x[1])[x[2]]

\* "unstorable": the schema accepts it and the database does not, like an
\* eventTimestamp that is no date-time ("format" is only an annotation).
\* "noObject": fails validation, and has no eventId to report it by.
Kinds == {"valid", "invalid", "unstorable", "noObject"}

\* The kinds that end the handler with an exception when their turn comes.
Raising == {"unstorable", "noObject"}

ASSUME BatchAssumption ==
  /\ MaxBatchSize \in Nat
  /\ MaxFailurePercent \in Nat
  /\ MaxRuns \in Nat
  /\ MaxCrashes \in Nat
  /\ Tool \in [Loaders -> {"shops", "seed_events"}]
  /\ BatchesOf \in [Loaders -> Seq(Seq([eventId : EventIds, kind : Kinds]))]

-----------------------------------------------------------------------------

VARIABLES pc,        \* where each loader is
          run,       \* how often each loader was started
          acked,     \* the batches of this run that were answered 200
          report,    \* the loader's succeeded and failed counts
          handler,   \* where each post is
          results,   \* the results each handler has collected
          stored,    \* the items whose event is in the graph
          ingested,  \* events_ingested_total of the running process
          crashes    \* restarts of the API so far

loaderVars == <<pc, run, acked, report>>
vars == <<pc, run, acked, report, handler, results, stored, ingested, crashes>>

Replies == {"200", "400", "422", "429", "5xx"}

Results == {"accepted", "duplicate", "invalid"}

TypeOK ==
  /\ pc \in [Loaders -> {"idle", "posting", "waiting", "loaded", "failed"}]
  /\ run \in [Loaders -> 0..MaxRuns]
  /\ acked \in [Loaders -> Nat]
  /\ report \in [Loaders -> [succeeded : Nat, failed : Nat]]
  /\ handler \in [Posts -> {"unsent", "transit", "persisting", "closed"} \union Replies]
  /\ results \in [Posts -> Seq(Results)]
  /\ \A p \in Posts : Len(results[p]) <= Len(Batch(p))
  /\ stored \subseteq Items
  /\ ingested \in Nat
  /\ crashes \in 0..MaxCrashes

Init ==
  /\ pc = [l \in Loaders |-> "idle"]
  /\ run = [l \in Loaders |-> 0]
  /\ acked = [l \in Loaders |-> 0]
  /\ report = [l \in Loaders |-> [succeeded |-> 0, failed |-> 0]]
  /\ handler = [p \in Posts |-> "unsent"]
  /\ results = [p \in Posts |-> <<>>]
  /\ stored = {}
  /\ ingested = 0
  /\ crashes = 0

-----------------------------------------------------------------------------
(***************************************************************************)
(* The loader: _post_batches.                                              *)
(***************************************************************************)

Current(l) == <<l, run[l], acked[l] + 1>>

\* The operator runs "load", for the first time or once more.
Start(l) ==
  /\ pc[l] \in {"idle", "loaded", "failed"}
  /\ run[l] < MaxRuns
  /\ pc' = [pc EXCEPT ![l] = "posting"]
  /\ run' = [run EXCEPT ![l] = @ + 1]
  /\ acked' = [acked EXCEPT ![l] = 0]
  /\ report' = [report EXCEPT ![l] = [succeeded |-> 0, failed |-> 0]]
  /\ UNCHANGED <<handler, results, stored, ingested, crashes>>

Post(l) ==
  /\ pc[l] = "posting"
  /\ acked[l] < Len(BatchesOf[l])
  /\ pc' = [pc EXCEPT ![l] = "waiting"]
  /\ handler' = [handler EXCEPT ![Current(l)] = "transit"]
  /\ UNCHANGED <<run, acked, report, results, stored, ingested, crashes>>

\* The loop is over: the loader prints its counts.
Finish(l) ==
  /\ pc[l] = "posting"
  /\ acked[l] = Len(BatchesOf[l])
  /\ pc' = [pc EXCEPT ![l] = "loaded"]
  /\ UNCHANGED <<run, acked, report, handler, results, stored, ingested, crashes>>

CountOf(rs, S) == Cardinality({i \in DOMAIN rs : rs[i] \in S})

\* _count_batch_result.  The shops' loader takes the totals of the answer; the
\* seed loader counts the statuses that start with "2", which neither
\* "accepted" nor "rejected" does.
Succeeded(l, rs) ==
  CASE Tool[l] = "shops" -> CountOf(rs, {"accepted"})
    [] Tool[l] = "seed_events" -> 0

\* Bug: no raise_for_status().
BugContinues(reply) == "posting"

AfterReply(reply) == IF reply = "200" THEN "posting" ELSE "failed"

Respond(l) ==
  LET p == Current(l)
      ok == Succeeded(l, results[p])
  IN
  /\ pc[l] = "waiting"
  /\ handler[p] \in Replies
  /\ pc' = [pc EXCEPT ![l] = AfterReply(handler[p])]
  /\ IF AfterReply(handler[p]) = "posting"
     THEN /\ acked' = [acked EXCEPT ![l] = @ + 1]
          /\ report' = [report EXCEPT ![l] =
                          [succeeded |-> @.succeeded + ok,
                           failed |-> @.failed + (Len(results[p]) - ok)]]
     ELSE UNCHANGED <<acked, report>>
  /\ handler' = [handler EXCEPT ![p] = "closed"]
  /\ UNCHANGED <<run, results, stored, ingested, crashes>>

\* Bug: an HTTP client without a timeout.
BugNoTimeout(l) == FALSE /\ UNCHANGED vars

\* No answer within 30 seconds, or no connection: the exception ends the load.
TransportError(l) ==
  /\ pc[l] = "waiting"
  /\ pc' = [pc EXCEPT ![l] = "failed"]
  /\ UNCHANGED <<run, acked, report, handler, results, stored, ingested, crashes>>

\* A request, or its answer, is lost on the way.
Lose(p) ==
  /\ handler[p] \in {"transit"} \union Replies
  /\ handler' = [handler EXCEPT ![p] = "closed"]
  /\ UNCHANGED <<loaderVars, results, stored, ingested, crashes>>

-----------------------------------------------------------------------------
(***************************************************************************)
(* The handler: ingest_events_batch.                                       *)
(***************************************************************************)

\* _validate_batch looks at every event before anything is written.
Failures(p) == Cardinality({i \in DOMAIN Batch(p) : Batch(p)[i].kind \in {"invalid", "noObject"}})

TooManyFailures(p) == 100 * Failures(p) > MaxFailurePercent * Len(Batch(p))

\* Bug: the threshold is looked at when the events have been written.
BugVerdict(p) == IF Len(Batch(p)) > MaxBatchSize THEN "400" ELSE "persisting"

Verdict(p) ==
  IF Len(Batch(p)) > MaxBatchSize THEN "400"
  ELSE IF TooManyFailures(p) THEN "422" ELSE "persisting"

Receive(p) ==
  /\ handler[p] = "transit"
  /\ handler' = [handler EXCEPT ![p] = Verdict(p)]
  /\ UNCHANGED <<loaderVars, results, stored, ingested, crashes>>

\* The rate limiter, in front of the handler.
Throttle(p) ==
  /\ handler[p] = "transit"
  /\ handler' = [handler EXCEPT ![p] = "429"]
  /\ UNCHANGED <<loaderVars, results, stored, ingested, crashes>>

\* The event that _persist_batch is at.
At(p) == <<p, Len(results[p]) + 1>>

Persisting(p) == handler[p] = "persisting" /\ Len(results[p]) < Len(Batch(p))

IsTaken(x) == \E y \in stored : EventOf(y).eventId = EventOf(x).eventId

\* Bug: a write that fails its constraint is reported as accepted.
BugOutcome(x) == IF EventOf(x).kind = "invalid" THEN "invalid" ELSE "accepted"

\* _persist_batch_event, or the error kept from validation.
Outcome(x) ==
  IF EventOf(x).kind = "invalid" THEN "invalid"
  ELSE IF IsTaken(x) THEN "duplicate" ELSE "accepted"

\* Bug: the events of a batch are written concurrently, in any order.
BugCollect(p) ==
  \E i \in DOMAIN Batch(p) :
    LET x == <<p, i>> IN
    /\ Persisting(p)
    /\ EventOf(x).kind \notin Raising
    /\ results' = [results EXCEPT ![p] = Append(@, Outcome(x))]
    /\ IF EventOf(x).kind = "valid" /\ ~IsTaken(x)
       THEN stored' = stored \union {x} /\ ingested' = ingested + 1
       ELSE UNCHANGED <<stored, ingested>>
    /\ UNCHANGED <<loaderVars, handler, crashes>>

\* Bug: a write waits for every other batch that holds the same eventId.
BugWaits(p) ==
  LET x == At(p) IN
  /\ Persisting(p)
  /\ EventOf(x).kind \notin Raising
  /\ \A q \in Posts : \A i \in DOMAIN Batch(q) :
       q # p /\ Persisting(q) => Batch(q)[i].eventId # EventOf(x).eventId
  /\ results' = [results EXCEPT ![p] = Append(@, Outcome(x))]
  /\ IF EventOf(x).kind = "valid" /\ ~IsTaken(x)
     THEN stored' = stored \union {x} /\ ingested' = ingested + 1
     ELSE UNCHANGED <<stored, ingested>>
  /\ UNCHANGED <<loaderVars, handler, crashes>>

\* One turn of the loop: write the event unless validation failed, and append
\* its result.
Collect(p) ==
  LET x == At(p) IN
  /\ Persisting(p)
  /\ EventOf(x).kind \notin Raising
  /\ results' = [results EXCEPT ![p] = Append(@, Outcome(x))]
  /\ IF EventOf(x).kind = "valid" /\ ~IsTaken(x)
     THEN stored' = stored \union {x} /\ ingested' = ingested + 1
     ELSE UNCHANGED <<stored, ingested>>
  /\ UNCHANGED <<loaderVars, handler, crashes>>

Answer(p) ==
  /\ handler[p] = "persisting"
  /\ Len(results[p]) = Len(Batch(p))
  /\ handler' = [handler EXCEPT ![p] = "200"]
  /\ UNCHANGED <<loaderVars, results, stored, ingested, crashes>>

\* Neo4j refuses the event, after nothing was written of it, or event.get fails
\* on what is no object: the handler answers 500 and drops its results.
Refuse(p) ==
  /\ Persisting(p)
  /\ EventOf(At(p)).kind \in Raising
  /\ handler' = [handler EXCEPT ![p] = "5xx"]
  /\ UNCHANGED <<loaderVars, results, stored, ingested, crashes>>

\* The connection to Neo4j breaks: the handler answers 503 and drops its results.
\* What it wrote stays, and if the connection broke after the commit the event
\* it was at is in the graph too.
DatabaseError(p) ==
  LET x == At(p) IN
  /\ Persisting(p)
  /\ EventOf(x).kind = "valid"
  /\ handler' = [handler EXCEPT ![p] = "5xx"]
  /\ \/ stored' = stored
     \/ ~IsTaken(x) /\ stored' = stored \union {x}
  /\ UNCHANGED <<loaderVars, results, ingested, crashes>>

\* The API process dies and restarts: its handlers and counters are gone.
Crash ==
  /\ crashes < MaxCrashes
  /\ handler' = [p \in Posts |-> IF handler[p] = "persisting" THEN "closed" ELSE handler[p]]
  /\ ingested' = 0
  /\ crashes' = crashes + 1
  /\ UNCHANGED <<loaderVars, results, stored>>

-----------------------------------------------------------------------------

\* Every load has been run as often as it may, and nothing is in flight.
Quiescent ==
  /\ \A l \in Loaders : pc[l] \in {"loaded", "failed"} /\ run[l] = MaxRuns
  /\ \A p \in Posts : handler[p] \in {"unsent", "closed"}
  /\ UNCHANGED vars

Next ==
  \/ \E l \in Loaders : Start(l) \/ Post(l) \/ Finish(l) \/ Respond(l) \/ TransportError(l)
  \/ \E p \in Posts : \/ Lose(p) \/ Receive(p) \/ Throttle(p) \/ Collect(p)
                      \/ Answer(p) \/ Refuse(p) \/ DatabaseError(p)
  \/ Crash
  \/ Quiescent

Spec == Init /\ [][Next]_vars

\* The loader's loop goes on and its timeout fires; the handler's writes end,
\* with a result or an error.
Fairness ==
  /\ \A l \in Loaders : WF_vars(Post(l)) /\ WF_vars(Finish(l)) /\ WF_vars(TransportError(l))
  /\ \A p \in Posts : WF_vars(Collect(p) \/ Answer(p) \/ Refuse(p))

FairSpec == Spec /\ Fairness

-----------------------------------------------------------------------------
(***************************************************************************)
(* Properties.                                                             *)
(***************************************************************************)

IsPersisted(e) == \E y \in stored : EventOf(y).eventId = e.eventId

\* No eventId is stored twice, however often its batch is posted, by whichever
\* loaders at the same time (_persist_batch_event against unique_event).
EventIdUnique ==
  \A x, y \in stored : EventOf(x).eventId = EventOf(y).eventId => x = y

\* A batch that is too large, or of which more than MaxFailurePercent fail
\* validation, writes nothing, not even its valid events: ingest_events_batch
\* validates the whole batch first.
RejectedBatchWritesNothing ==
  \A x \in stored :
    LET b == Batch(x[1]) IN
    /\ Len(b) <= MaxBatchSize
    /\ Cardinality({i \in DOMAIN b : b[i].kind \in {"invalid", "noObject"}}) * 100
         <= MaxFailurePercent * Len(b)

\* Each result says what happened to its event, in the order of the request:
\* accepted if this very post stored it, duplicate if another one did before.
ResultsAreTrue ==
  \A p \in Posts : \A i \in DOMAIN results[p] :
    LET x == <<p, i>> IN
    /\ results[p][i] = "accepted" <=> x \in stored
    /\ results[p][i] = "duplicate" => \E y \in stored \ {x} : EventOf(y).eventId = EventOf(x).eventId
    /\ results[p][i] = "invalid" <=> EventOf(x).kind = "invalid"

\* A handler that fails or dies half way leaves a prefix: every valid event
\* up to where it was is persisted, and nothing after the event it was at.
FailureLeavesPrefix ==
  /\ \A p \in Posts : \A i \in DOMAIN results[p] :
       Batch(p)[i].kind = "valid" => IsPersisted(Batch(p)[i])
  /\ \A x \in stored : x[2] <= Len(results[x[1]]) + 1

\* A load that ends normally has all its valid events in the graph, whatever
\* failed in earlier runs and whatever other loaders did at the same time, and
\* had no event that ends a handler (_post_batches).
LoadedIsComplete ==
  \A l \in Loaders : pc[l] = "loaded" =>
    \A k \in DOMAIN BatchesOf[l] : \A i \in DOMAIN BatchesOf[l][k] :
      LET e == BatchesOf[l][k][i] IN
      /\ e.kind \notin Raising
      /\ e.kind = "valid" => IsPersisted(e)

\* The counts a load prints are the events this run stored and did not store
\* (seed_events.py:60, generate.py:65).
ReportIsTrue ==
  \A l \in Loaders : pc[l] = "loaded" =>
    LET mine == {x \in Items : x[1][1] = l /\ x[1][2] = run[l]} IN
    /\ report[l].succeeded = Cardinality(mine \intersect stored)
    /\ report[l].failed = Cardinality(mine \ stored)

\* events_ingested_total never exceeds what is in the graph.
CountedIsStored == ingested <= Cardinality(stored)

\* Every load ends, and so does the handler of every batch, also of those that
\* nobody waits for any more.
LoadsEnd == \A l \in Loaders : (pc[l] = "posting") ~> (pc[l] \in {"loaded", "failed"})
HandlersEnd == \A p \in Posts : (handler[p] = "persisting") ~> (handler[p] # "persisting")

=============================================================================
