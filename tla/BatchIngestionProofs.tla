------------------------- MODULE BatchIngestionProofs -------------------------
(***************************************************************************)
(* Theorems about BatchIngestion, for all loaders, files, batch sizes,     *)
(* thresholds and numbers of runs and restarts.                            *)
(***************************************************************************)
EXTENDS BatchIngestion, FiniteSetTheorems, TLAPS

-----------------------------------------------------------------------------
(***************************************************************************)
(* Facts about the constants.                                              *)
(***************************************************************************)

Event == [eventId : EventIds, kind : Kinds]

\* A post names a loader, a run and a batch of that loader's file.
LEMMA PostType ==
  ASSUME NEW p \in Posts
  PROVE  /\ p[1] \in Loaders
         /\ p[2] \in 1..MaxRuns
         /\ p[3] \in DOMAIN BatchesOf[p[1]]
         /\ Batch(p) \in Seq(Event)
<1>1. PICK l \in Loaders : p \in {l} \X (1..MaxRuns) \X DOMAIN BatchesOf[l]
  BY DEF Posts
<1>2. p[1] = l /\ p[2] \in 1..MaxRuns /\ p[3] \in DOMAIN BatchesOf[l]
  BY <1>1
<1>3. BatchesOf[l] \in Seq(Seq(Event))
  BY BatchAssumption DEF Event
<1>4. BatchesOf[l][p[3]] \in Seq(Event)
  BY <1>2, <1>3
<1> QED BY <1>2, <1>4 DEF Batch

\* Every batch of a loader is posted in each of its runs.
LEMMA TripleIsPost ==
  ASSUME NEW l \in Loaders, NEW n \in 1..MaxRuns, NEW k \in DOMAIN BatchesOf[l]
  PROVE  /\ <<l, n, k>> \in Posts
         /\ Batch(<<l, n, k>>) = BatchesOf[l][k]
BY DEF Posts, Batch

\* An item is a position in the batch of a post.
LEMMA ItemType ==
  ASSUME NEW p \in Posts, NEW i \in DOMAIN Batch(p)
  PROVE  /\ <<p, i>> \in Items
         /\ EventOf(<<p, i>>) = Batch(p)[i]
BY DEF Items, EventOf

\* The event that a handler is at.
LEMMA AtType ==
  ASSUME TypeOK, NEW p \in Posts, Persisting(p)
  PROVE  /\ Len(results[p]) + 1 \in DOMAIN Batch(p)
         /\ At(p) \in Items
         /\ EventOf(At(p)) = Batch(p)[Len(results[p]) + 1]
<1>1. Batch(p) \in Seq(Event) /\ results[p] \in Seq(Results)
  BY PostType DEF TypeOK
<1>2. Len(results[p]) + 1 \in DOMAIN Batch(p)
  BY <1>1 DEF Persisting
<1> QED BY <1>2, ItemType DEF At

\* The counts that a loader takes from an answer are natural numbers.
LEMMA SucceededType ==
  ASSUME NEW l \in Loaders, NEW rs \in Seq(Results)
  PROVE  Succeeded(l, rs) \in Nat /\ Succeeded(l, rs) <= Len(rs)
<1>1. ASSUME NEW S PROVE CountOf(rs, S) \in Nat /\ CountOf(rs, S) <= Len(rs)
  <2> DEFINE D == 1..Len(rs)
             C == {i \in DOMAIN rs : rs[i] \in S}
  <2>0. Len(rs) \in Nat /\ 1 \in Int
    OBVIOUS
  <2>1. IsFiniteSet(D) /\ Cardinality(D) = Len(rs)
    <3> DEFINE n == Len(rs)
    <3>1. n \in Int /\ 1 \in Int /\ n \in Nat /\ D = 1 .. n
      BY <2>0
    <3> HIDE DEF n, D
    <3>2. IsFiniteSet(1 .. n) /\ Cardinality(1 .. n) = IF 1 > n THEN 0 ELSE n - 1 + 1
      BY <3>1, FS_Interval
    <3>3. (IF 1 > n THEN 0 ELSE n - 1 + 1) = n
      BY <3>1
    <3> QED BY <3>1, <3>2, <3>3 DEF n
  <2>2. C \in SUBSET D
    OBVIOUS
  <2>3. IsFiniteSet(C) /\ Cardinality(C) <= Cardinality(D)
    BY <2>1, <2>2, FS_Subset
  <2>4. Cardinality(C) \in Nat
    BY <2>3, FS_CardinalityType
  <2> QED BY <2>1, <2>3, <2>4 DEF CountOf
<1>2. Tool[l] \in {"shops", "seed_events"}
  BY BatchAssumption
<1> QED BY <1>1, <1>2 DEF Succeeded

-----------------------------------------------------------------------------
(***************************************************************************)
(* Type correctness.                                                       *)
(***************************************************************************)

\* Where a loader is in its file: it waits only for a batch that exists, and
\* is through only at the end.
Places ==
  \A l \in Loaders :
    /\ acked[l] <= Len(BatchesOf[l])
    /\ pc[l] # "idle" => run[l] > 0
    /\ pc[l] = "waiting" => acked[l] < Len(BatchesOf[l])
    /\ pc[l] = "loaded" => acked[l] = Len(BatchesOf[l])

Inv0 == TypeOK /\ Places

\* The batch that a loader posts, or waits for, is one of its posts.
LEMMA CurrentType ==
  ASSUME Inv0, NEW l \in Loaders, pc[l] # "idle", acked[l] < Len(BatchesOf[l])
  PROVE  /\ Current(l) \in Posts
         /\ Batch(Current(l)) = BatchesOf[l][acked[l] + 1]
         /\ acked[l] + 1 \in DOMAIN BatchesOf[l]
<1>1. run[l] \in 1..MaxRuns /\ acked[l] \in Nat
  BY BatchAssumption DEF Inv0, TypeOK, Places
<1>2. BatchesOf[l] \in Seq(Seq(Event))
  BY BatchAssumption DEF Event
<1>3. acked[l] + 1 \in DOMAIN BatchesOf[l]
  BY <1>1, <1>2
<1> QED BY <1>1, <1>3, TripleIsPost DEF Current

LEMMA InitInv0 == Init => Inv0
<1> SUFFICES ASSUME Init PROVE Inv0
  OBVIOUS
<1>1. \A p \in Posts : Batch(p) \in Seq(Event)
  BY PostType
<1>2. TypeOK
  BY <1>1, BatchAssumption DEF Init, TypeOK
<1>3. \A l \in Loaders : BatchesOf[l] \in Seq(Seq(Event))
  BY BatchAssumption DEF Event
<1>4. Places
  BY <1>3 DEF Init, Places
<1> QED BY <1>2, <1>4 DEF Inv0

\* A step of a loader.
LEMMA LoaderInv0 ==
  ASSUME Inv0, NEW l \in Loaders,
         Start(l) \/ Post(l) \/ Finish(l) \/ Respond(l) \/ TransportError(l)
  PROVE  Inv0'
<1> USE DEF Inv0
<1>0. \A m \in Loaders : BatchesOf[m] \in Seq(Seq(Event))
  BY BatchAssumption DEF Event
<1>1. CASE Start(l)
  <2>1. TypeOK'
    BY <1>1, BatchAssumption DEF Start, TypeOK
  <2>2. Places'
    BY <1>0, <1>1, BatchAssumption DEF Start, TypeOK, Places
  <2> QED BY <2>1, <2>2
<1>2. CASE Post(l)
  <2>1. Current(l) \in Posts
    BY <1>2, CurrentType DEF Post
  <2>2. TypeOK'
    BY <1>2, <2>1 DEF Post, TypeOK
  <2>3. Places'
    BY <1>2 DEF Post, TypeOK, Places
  <2> QED BY <2>2, <2>3
<1>3. CASE Finish(l)
  <2>1. TypeOK'
    BY <1>3 DEF Finish, TypeOK
  <2>2. Places'
    BY <1>3 DEF Finish, TypeOK, Places
  <2> QED BY <2>1, <2>2
<1>4. CASE Respond(l)
  <2> DEFINE p == Current(l)
             ok == Succeeded(l, results[p])
  <2>1. p \in Posts /\ acked[l] < Len(BatchesOf[l])
    BY <1>4, CurrentType DEF Respond, Places
  <2>2. results[p] \in Seq(Results)
    BY <2>1 DEF TypeOK
  <2>3. ok \in Nat /\ Len(results[p]) - ok \in Nat
    BY <2>2, SucceededType
  <2>4. AfterReply(handler[p]) \in {"posting", "failed"}
    BY DEF AfterReply
  <2>5. handler' \in [Posts -> {"unsent", "transit", "persisting", "closed"} \union Replies]
    BY <1>4, <2>1 DEF Respond, TypeOK
  <2>6. acked' = acked \/ acked' = [acked EXCEPT ![l] = acked[l] + 1]
    BY <1>4 DEF Respond
  <2>7. acked' \in [Loaders -> Nat]
    <3>1. acked \in [Loaders -> Nat] /\ acked[l] + 1 \in Nat
      BY DEF TypeOK
    <3> QED BY <2>6, <3>1
  <2>8. report' \in [Loaders -> [succeeded : Nat, failed : Nat]]
    <3>1. CASE UNCHANGED <<acked, report>>
      BY <3>1 DEF TypeOK
    <3>2. CASE report' = [report EXCEPT ![l] = [succeeded |-> @.succeeded + ok,
                                                failed |-> @.failed + (Len(results[p]) - ok)]]
      <4>1. report[l] \in [succeeded : Nat, failed : Nat]
        BY DEF TypeOK
      <4>2. [succeeded |-> report[l].succeeded + ok,
             failed |-> report[l].failed + (Len(results[p]) - ok)]
               \in [succeeded : Nat, failed : Nat]
        BY <2>3, <4>1
      <4> QED BY <3>2, <4>2 DEF TypeOK
    <3> QED BY <1>4, <3>1, <3>2 DEF Respond
  <2>9. TypeOK'
    BY <1>4, <2>4, <2>5, <2>7, <2>8 DEF Respond, TypeOK
  <2>10. ASSUME NEW m \in Loaders
        PROVE  /\ acked'[m] <= Len(BatchesOf[m])
               /\ pc'[m] # "idle" => run'[m] > 0
               /\ pc'[m] = "waiting" => acked'[m] < Len(BatchesOf[m])
               /\ pc'[m] = "loaded" => acked'[m] = Len(BatchesOf[m])
    <3>1. CASE m = l
      <4>1. pc'[m] \in {"posting", "failed"} /\ run'[m] = run[m] /\ run[m] > 0
        BY <1>4, <2>4, <3>1 DEF Respond, TypeOK, Places
      <4>2. acked[m] \in Nat /\ Len(BatchesOf[m]) \in Nat
        BY <1>0 DEF TypeOK
      <4>3. acked'[m] \in {acked[m], acked[m] + 1}
        BY <2>6, <3>1 DEF TypeOK
      <4> QED BY <2>1, <3>1, <4>1, <4>2, <4>3
    <3>2. CASE m # l
      BY <1>4, <2>6, <3>2 DEF Respond, TypeOK, Places
    <3> QED BY <3>1, <3>2
  <2>11. Places'
    BY <2>10 DEF Places
  <2> QED BY <2>9, <2>11
<1>5. CASE TransportError(l)
  <2>1. TypeOK'
    BY <1>5 DEF TransportError, TypeOK
  <2>2. Places'
    BY <1>5 DEF TransportError, TypeOK, Places
  <2> QED BY <2>1, <2>2
<1> QED BY <1>1, <1>2, <1>3, <1>4, <1>5

\* A step of a handler, of the network or of the API process.
LEMMA ServerInv0 ==
  ASSUME Inv0,
         \/ \E p \in Posts : \/ Lose(p) \/ Receive(p) \/ Throttle(p) \/ Collect(p)
                             \/ Answer(p) \/ Refuse(p) \/ DatabaseError(p)
         \/ Crash
         \/ UNCHANGED vars
  PROVE  Inv0'
<1> USE DEF Inv0
<1>1. ASSUME UNCHANGED loaderVars PROVE Places'
  BY <1>1 DEF loaderVars, Places
<1>2. ASSUME NEW p \in Posts,
             Lose(p) \/ Receive(p) \/ Throttle(p) \/ Answer(p) \/ Refuse(p)
      PROVE  Inv0'
  <2>1. Verdict(p) \in {"400", "422", "persisting"}
    BY DEF Verdict
  <2>2. TypeOK'
    BY <1>2, <2>1 DEF Lose, Receive, Throttle, Answer, Refuse, TypeOK, Replies, loaderVars
  <2> QED BY <1>1, <1>2, <2>2 DEF Lose, Receive, Throttle, Answer, Refuse
<1>3. ASSUME NEW p \in Posts, Collect(p) PROVE Inv0'
  <2> DEFINE x == At(p)
  <2>1. x \in Items /\ Len(results[p]) + 1 \in DOMAIN Batch(p)
    BY <1>3, AtType DEF Collect
  <2>2. Outcome(x) \in Results
    BY DEF Outcome, Results
  <2>3. results[p] \in Seq(Results) /\ Batch(p) \in Seq(Event)
    BY PostType DEF TypeOK
  <2>4. results' = [results EXCEPT ![p] = Append(results[p], Outcome(x))]
    BY <1>3 DEF Collect
  <2>5. results' \in [Posts -> Seq(Results)]
    BY <2>2, <2>3, <2>4 DEF TypeOK
  <2>6. ASSUME NEW q \in Posts PROVE Len(results'[q]) <= Len(Batch(q))
    BY <1>3, <2>3, <2>4 DEF TypeOK, Collect, Persisting
  <2>7. stored' \subseteq Items /\ ingested' \in Nat
    BY <1>3, <2>1 DEF Collect, TypeOK
  <2>8. TypeOK'
    BY <1>3, <2>5, <2>6, <2>7 DEF Collect, TypeOK, loaderVars
  <2> QED BY <1>1, <1>3, <2>8 DEF Collect
<1>4. ASSUME NEW p \in Posts, DatabaseError(p) PROVE Inv0'
  <2>1. At(p) \in Items
    BY <1>4, AtType DEF DatabaseError
  <2>2. TypeOK'
    BY <1>4, <2>1 DEF DatabaseError, TypeOK, Replies, loaderVars
  <2> QED BY <1>1, <1>4, <2>2 DEF DatabaseError
<1>5. CASE Crash
  <2>1. handler' \in [Posts -> {"unsent", "transit", "persisting", "closed"} \union Replies]
    BY <1>5 DEF Crash, TypeOK
  <2>2. TypeOK'
    BY <1>5, <2>1, BatchAssumption DEF Crash, TypeOK, loaderVars
  <2> QED BY <1>1, <1>5, <2>2 DEF Crash
<1>6. CASE UNCHANGED vars
  BY <1>6 DEF vars, TypeOK, Places
<1> QED BY <1>2, <1>3, <1>4, <1>5, <1>6

LEMMA StepInv0 == Inv0 /\ [Next]_vars => Inv0'
BY LoaderInv0, ServerInv0 DEF Next, Quiescent

\* Every variable keeps its type: no handler collects more results than its
\* batch has events, and no loader leaves its file.
THEOREM BatchTypeCorrect == Spec => []TypeOK
<1>1. Spec => []Inv0
  BY InitInv0, StepInv0, PTL DEF Spec
<1>2. Inv0 => TypeOK
  BY DEF Inv0
<1> QED BY <1>1, <1>2, PTL

-----------------------------------------------------------------------------
(***************************************************************************)
(* What is in the graph, and what handlers and loaders know of it.         *)
(***************************************************************************)

\* The event is of no kind that ends a handler, and is in the graph if valid.
IsDone(e) == e.kind \notin Raising /\ (e.kind = "valid" => IsPersisted(e))

\* A handler writes only if its batch passed the checks.
WritersPassed == \A p \in Posts : handler[p] = "persisting" => Verdict(p) = "persisting"

\* Every result stands for an event that the handler is through with.
ResultsAreDone == \A p \in Posts : \A i \in DOMAIN results[p] : IsDone(Batch(p)[i])

\* 200 is answered with a result for every event.
AnswersAreFull == \A p \in Posts : handler[p] = "200" => Len(results[p]) = Len(Batch(p))

\* The batches that a loader counts as acknowledged are through.
AckedAreDone ==
  \A l \in Loaders : pc[l] \in {"posting", "waiting", "loaded"} =>
    \A k \in 1..acked[l] : \A i \in DOMAIN BatchesOf[l][k] : IsDone(BatchesOf[l][k][i])

\* A new item is stored by a handler that writes, and its eventId was free.
StoredOnlyBy(x) ==
  \/ stored' = stored
  \/ /\ stored' = stored \union {x}
     /\ ~IsTaken(x)

Inv1 ==
  /\ Inv0
  /\ EventIdUnique
  /\ WritersPassed
  /\ RejectedBatchWritesNothing
  /\ ResultsAreDone
  /\ AnswersAreFull
  /\ AckedAreDone

\* A batch that passes the checks is one that may be written.
LEMMA PassedIsSmallAndGood ==
  ASSUME NEW p \in Posts, Verdict(p) = "persisting"
  PROVE  /\ Len(Batch(p)) <= MaxBatchSize
         /\ Cardinality({i \in DOMAIN Batch(p) : Batch(p)[i].kind \in {"invalid", "noObject"}}) * 100
              <= MaxFailurePercent * Len(Batch(p))
<1> DEFINE b == Batch(p)
           F == {i \in DOMAIN b : b[i].kind \in {"invalid", "noObject"}}
<1>1. b \in Seq(Event) /\ Len(b) \in Nat
  BY PostType
<1>2. IsFiniteSet(1..Len(b)) /\ 1 \in Int
  BY <1>1, FS_Interval
<1>3. F \in SUBSET (1..Len(b))
  BY <1>1
<1>4. Cardinality(F) \in Nat
  BY <1>2, <1>3, FS_Subset, FS_CardinalityType
<1>5. Len(b) <= MaxBatchSize /\ ~(100 * Cardinality(F) > MaxFailurePercent * Len(b))
  BY <1>1, BatchAssumption DEF Verdict, TooManyFailures, Failures
<1>6. MaxFailurePercent * Len(b) \in Nat
  BY <1>1, BatchAssumption
<1> HIDE DEF F, b
<1>7. Cardinality(F) * 100 <= MaxFailurePercent * Len(b)
  BY <1>4, <1>5, <1>6
<1> QED BY <1>5, <1>7 DEF F, b

\* The graph only grows, so what is done stays done.
LEMMA DoneStaysDone ==
  ASSUME NEW e, IsDone(e), stored \subseteq stored'
  PROVE  IsDone(e)'
BY DEF IsDone, IsPersisted

\* A step that stores nothing, or one new item of a handler that may write.
LEMMA StoreStep ==
  ASSUME Inv1, NEW p \in Posts, NEW i \in DOMAIN Batch(p),
         handler[p] = "persisting", StoredOnlyBy(<<p, i>>)
  PROVE  EventIdUnique' /\ RejectedBatchWritesNothing' /\ stored \subseteq stored'
<1> DEFINE x == <<p, i>>
<1>1. Verdict(p) = "persisting"
  BY DEF Inv1, WritersPassed
<1>2. EventIdUnique'
  BY DEF StoredOnlyBy, IsTaken, Inv1, EventIdUnique
<1>3. RejectedBatchWritesNothing'
  <2>1. ASSUME NEW y \in stored'
        PROVE  /\ Len(Batch(y[1])) <= MaxBatchSize
               /\ Cardinality({j \in DOMAIN Batch(y[1]) : Batch(y[1])[j].kind \in {"invalid", "noObject"}}) * 100
                    <= MaxFailurePercent * Len(Batch(y[1]))
    <3>1. CASE y \in stored
      BY <3>1 DEF Inv1, RejectedBatchWritesNothing
    <3>2. CASE y = x
      <4>1. y[1] = p
        BY <3>2
      <4> QED BY <1>1, <4>1, PassedIsSmallAndGood
    <3> QED BY <3>1, <3>2 DEF StoredOnlyBy
  <2> QED BY <2>1 DEF RejectedBatchWritesNothing
<1> QED BY <1>2, <1>3 DEF StoredOnlyBy

LEMMA InitInv1 == Init => Inv1
<1> SUFFICES ASSUME Init PROVE Inv1
  OBVIOUS
<1>1. EventIdUnique /\ RejectedBatchWritesNothing
  BY DEF Init, EventIdUnique, RejectedBatchWritesNothing
<1>2. WritersPassed /\ ResultsAreDone /\ AnswersAreFull /\ AckedAreDone
  BY DEF Init, WritersPassed, ResultsAreDone, AnswersAreFull, AckedAreDone
<1> QED BY <1>1, <1>2, InitInv0 DEF Inv1

\* A step of a loader.
LEMMA LoaderInv1 ==
  ASSUME Inv1, Inv0', NEW l \in Loaders,
         Start(l) \/ Post(l) \/ Finish(l) \/ Respond(l) \/ TransportError(l)
  PROVE  Inv1'
<1> USE DEF Inv1
<1>1. stored' = stored /\ results' = results
  BY DEF Start, Post, Finish, Respond, TransportError
<1>2. EventIdUnique' /\ RejectedBatchWritesNothing'
  BY <1>1 DEF EventIdUnique, RejectedBatchWritesNothing
<1>3. \A e : IsDone(e)' <=> IsDone(e)
  BY <1>1 DEF IsDone, IsPersisted
<1>4. ResultsAreDone'
  BY <1>1, <1>3 DEF ResultsAreDone
<1>5. \A p \in Posts : handler'[p] \in {handler[p], "transit", "closed"}
  BY DEF Start, Post, Finish, Respond, TransportError, Inv0, TypeOK
<1>6. WritersPassed' /\ AnswersAreFull'
  BY <1>1, <1>5 DEF WritersPassed, AnswersAreFull, Verdict, TooManyFailures, Failures
<1>7. AckedAreDone'
  <2> SUFFICES ASSUME NEW m \in Loaders, pc'[m] \in {"posting", "waiting", "loaded"},
                      NEW k \in 1..acked'[m], NEW i \in DOMAIN BatchesOf[m][k]
               PROVE  IsDone(BatchesOf[m][k][i])
    BY <1>3 DEF AckedAreDone
  <2>1. CASE m # l \/ Post(l) \/ Finish(l) \/ TransportError(l)
    <3>1. acked'[m] = acked[m] /\ pc[m] \in {"posting", "waiting", "loaded"}
      BY <2>1 DEF Start, Post, Finish, Respond, TransportError, Inv0, TypeOK
    <3> QED BY <3>1 DEF AckedAreDone
  <2>2. CASE m = l /\ Start(l)
    BY <2>2 DEF Start, Inv0, TypeOK
  <2>3. CASE m = l /\ Respond(l)
    <3> DEFINE p == Current(l)
    <3>1. pc[l] = "waiting" /\ p \in Posts /\ Batch(p) = BatchesOf[l][acked[l] + 1]
      BY <2>3, CurrentType DEF Respond, Inv0, Places
    <3>2. handler[p] = "200"
      BY <2>3 DEF Respond, AfterReply, Inv0, TypeOK
    <3>3. acked'[l] = acked[l] + 1 /\ acked[l] \in Nat
      BY <2>3, <3>2 DEF Respond, AfterReply, Inv0, TypeOK
    <3>4. CASE k = acked[l] + 1
      <4>1. results[p] \in Seq(Results) /\ Batch(p) \in Seq(Event)
        BY <3>1, PostType DEF Inv0, TypeOK
      <4>2. DOMAIN results[p] = DOMAIN Batch(p)
        BY <3>1, <3>2, <4>1 DEF AnswersAreFull
      <4> QED BY <2>3, <3>1, <3>4, <4>2 DEF ResultsAreDone
    <3>5. CASE k \in 1..acked[l]
      BY <2>3, <3>1, <3>5 DEF AckedAreDone
    <3> QED BY <2>3, <3>3, <3>4, <3>5
  <2> QED BY <2>1, <2>2, <2>3
<1> QED BY <1>2, <1>4, <1>6, <1>7

\* What loaders know is kept by every step that leaves them alone.
LEMMA AckedStaysDone ==
  ASSUME AckedAreDone, UNCHANGED loaderVars, stored \subseteq stored'
  PROVE  AckedAreDone'
BY DoneStaysDone DEF AckedAreDone, loaderVars

\* What is done of a batch stays done when no result is added.
LEMMA ResultsStayDone ==
  ASSUME ResultsAreDone, results' = results, stored \subseteq stored'
  PROVE  ResultsAreDone'
BY DoneStaysDone DEF ResultsAreDone

\* A step of a handler, of the network or of the API process.
LEMMA ServerInv1 ==
  ASSUME Inv1, Inv0',
         \/ \E p \in Posts : \/ Lose(p) \/ Receive(p) \/ Throttle(p) \/ Collect(p)
                             \/ Answer(p) \/ Refuse(p) \/ DatabaseError(p)
         \/ Crash
         \/ UNCHANGED vars
  PROVE  Inv1'
<1> USE DEF Inv1
<1>1. ASSUME stored' = stored, results' = results, UNCHANGED loaderVars
      PROVE  EventIdUnique' /\ RejectedBatchWritesNothing' /\ ResultsAreDone' /\ AckedAreDone'
  BY <1>1, ResultsStayDone, AckedStaysDone DEF EventIdUnique, RejectedBatchWritesNothing
<1>2. ASSUME NEW p \in Posts,
             Lose(p) \/ Receive(p) \/ Throttle(p) \/ Answer(p) \/ Refuse(p)
      PROVE  Inv1'
  <2>1. stored' = stored /\ results' = results /\ UNCHANGED loaderVars
    BY <1>2 DEF Lose, Receive, Throttle, Answer, Refuse
  <2>2. WritersPassed'
    <3>1. ASSUME NEW q \in Posts, handler'[q] = "persisting"
          PROVE  handler[q] = "persisting" \/ Verdict(q) = "persisting"
      BY <1>2, <3>1 DEF Lose, Receive, Throttle, Answer, Refuse, Inv0, TypeOK
    <3> QED BY <3>1 DEF WritersPassed, Verdict, TooManyFailures, Failures
  <2>3. AnswersAreFull'
    <3>1. ASSUME NEW q \in Posts, handler'[q] = "200"
          PROVE  handler[q] = "200" \/ Len(results[q]) = Len(Batch(q))
      <4>1. CASE Receive(p)
        BY <3>1, <4>1 DEF Receive, Verdict, Inv0, TypeOK
      <4>2. CASE ~Receive(p)
        BY <1>2, <3>1, <4>2 DEF Lose, Throttle, Answer, Refuse, Inv0, TypeOK
      <4> QED BY <4>1, <4>2
    <3> QED BY <2>1, <3>1 DEF AnswersAreFull
  <2> QED BY <1>1, <2>1, <2>2, <2>3
<1>3. ASSUME NEW p \in Posts, Collect(p) PROVE Inv1'
  <2>1. PICK i \in DOMAIN Batch(p) :
          i = Len(results[p]) + 1 /\ EventOf(<<p, i>>) = Batch(p)[i] /\ At(p) = <<p, i>>
    BY <1>3, AtType DEF Collect, Inv0, At
  <2> DEFINE x == <<p, i>>
  <2>2. handler[p] = "persisting" /\ StoredOnlyBy(x)
    BY <1>3, <2>1 DEF Collect, Persisting, StoredOnlyBy
  <2>3. EventIdUnique' /\ RejectedBatchWritesNothing' /\ stored \subseteq stored'
    BY <2>1, <2>2, StoreStep
  <2>4. IsDone(Batch(p)[i])'
    <3>1. Batch(p)[i].kind \notin Raising
      BY <1>3, <2>1 DEF Collect
    <3>2. CASE Batch(p)[i].kind = "valid" /\ ~IsTaken(x)
      <4>1. x \in stored'
        BY <1>3, <2>1, <3>2 DEF Collect
      <4> QED BY <2>1, <3>1, <4>1 DEF IsDone, IsPersisted
    <3>3. CASE Batch(p)[i].kind = "valid" /\ IsTaken(x)
      BY <2>1, <2>3, <3>1, <3>3 DEF IsDone, IsPersisted, IsTaken
    <3>4. CASE Batch(p)[i].kind # "valid"
      BY <3>1, <3>4 DEF IsDone
    <3> QED BY <3>2, <3>3, <3>4
  <2>5. ResultsAreDone'
    <3> SUFFICES ASSUME NEW q \in Posts, NEW j \in DOMAIN results'[q]
                 PROVE  IsDone(Batch(q)[j])'
      BY DEF ResultsAreDone
    <3>1. results[p] \in Seq(Results) /\ results' = [results EXCEPT ![p] = Append(results[p], Outcome(x))]
      BY <1>3, <2>1 DEF Collect, Inv0, TypeOK
    <3>2. CASE q = p /\ j = i
      BY <2>4, <3>2
    <3>3. CASE j \in DOMAIN results[q]
      BY <2>3, <3>3, DoneStaysDone DEF ResultsAreDone
    <3>4. (q = p /\ j = i) \/ j \in DOMAIN results[q]
      <4>1. CASE q = p
        BY <2>1, <3>1, <4>1 DEF Inv0, TypeOK
      <4>2. CASE q # p
        BY <3>1, <4>2 DEF Inv0, TypeOK
      <4> QED BY <4>1, <4>2
    <3> QED BY <3>2, <3>3, <3>4
  <2>6. WritersPassed'
    BY <1>3 DEF Collect, WritersPassed, Verdict, TooManyFailures, Failures
  <2>7. AnswersAreFull'
    BY <1>3, <2>2 DEF Collect, AnswersAreFull, Inv0, TypeOK
  <2>8. AckedAreDone'
    BY <1>3, <2>3, AckedStaysDone DEF Collect
  <2> QED BY <2>3, <2>5, <2>6, <2>7, <2>8
<1>4. ASSUME NEW p \in Posts, DatabaseError(p) PROVE Inv1'
  <2>1. PICK i \in DOMAIN Batch(p) : At(p) = <<p, i>>
    BY <1>4, AtType DEF DatabaseError, Inv0, At
  <2> DEFINE x == <<p, i>>
  <2>2. handler[p] = "persisting" /\ StoredOnlyBy(x)
    BY <1>4, <2>1 DEF DatabaseError, Persisting, StoredOnlyBy
  <2>3. EventIdUnique' /\ RejectedBatchWritesNothing' /\ stored \subseteq stored'
    BY <2>1, <2>2, StoreStep
  <2>4. ResultsAreDone' /\ AckedAreDone'
    BY <1>4, <2>3, ResultsStayDone, AckedStaysDone DEF DatabaseError
  <2>5. WritersPassed' /\ AnswersAreFull'
    BY <1>4 DEF DatabaseError, WritersPassed, AnswersAreFull, Verdict, TooManyFailures,
                Failures, Inv0, TypeOK
  <2> QED BY <2>3, <2>4, <2>5
<1>5. CASE Crash
  <2>1. stored' = stored /\ results' = results /\ UNCHANGED loaderVars
    BY <1>5 DEF Crash
  <2>2. WritersPassed' /\ AnswersAreFull'
    BY <1>5 DEF Crash, WritersPassed, AnswersAreFull, Verdict, TooManyFailures, Failures
  <2> QED BY <1>1, <2>1, <2>2
<1>6. CASE UNCHANGED vars
  <2>1. stored' = stored /\ results' = results /\ handler' = handler /\ UNCHANGED loaderVars
    BY <1>6 DEF vars, loaderVars
  <2>2. WritersPassed' /\ AnswersAreFull'
    BY <2>1 DEF WritersPassed, AnswersAreFull, Verdict, TooManyFailures, Failures
  <2> QED BY <1>1, <2>1, <2>2
<1> QED BY <1>2, <1>3, <1>4, <1>5, <1>6

LEMMA StepInv1 == Inv1 /\ [Next]_vars => Inv1'
<1> SUFFICES ASSUME Inv1, [Next]_vars PROVE Inv1'
  OBVIOUS
<1>1. Inv0'
  BY StepInv0 DEF Inv1
<1> QED BY <1>1, LoaderInv1, ServerInv1 DEF Next, Quiescent

LEMMA SpecInv1 == Spec => []Inv1
BY InitInv1, StepInv1, PTL DEF Spec

\* No eventId is stored twice, by any number of loaders, runs and failures.
THEOREM BatchEventIdsAreUnique == Spec => []EventIdUnique
<1>1. Inv1 => EventIdUnique
  BY DEF Inv1
<1> QED BY <1>1, SpecInv1, PTL

\* A batch that is too large, or fails too often, writes nothing.
THEOREM RejectedBatchesWriteNothing == Spec => []RejectedBatchWritesNothing
<1>1. Inv1 => RejectedBatchWritesNothing
  BY DEF Inv1
<1> QED BY <1>1, SpecInv1, PTL

\* A load that ends normally has every valid event of its file in the graph.
THEOREM LoadsAreComplete == Spec => []LoadedIsComplete
<1>1. Inv1 => LoadedIsComplete
  <2> SUFFICES ASSUME Inv1, NEW l \in Loaders, pc[l] = "loaded",
                      NEW k \in DOMAIN BatchesOf[l], NEW i \in DOMAIN BatchesOf[l][k]
               PROVE  IsDone(BatchesOf[l][k][i])
    BY DEF LoadedIsComplete, IsDone
  <2>1. BatchesOf[l] \in Seq(Seq(Event))
    BY BatchAssumption DEF Event
  <2>2. k \in 1..acked[l]
    BY <2>1 DEF Inv1, Inv0, Places
  <2> QED BY <2>2 DEF Inv1, AckedAreDone
<1> QED BY <1>1, SpecInv1, PTL

-----------------------------------------------------------------------------
(***************************************************************************)
(* What results say, and how much a handler leaves behind.                 *)
(***************************************************************************)

\* A post that its loader has yet to make.
ToCome(p) ==
  \/ p[2] > run[p[1]]
  \/ /\ p[2] = run[p[1]]
     /\ \/ pc[p[1]] = "posting" /\ p[3] > acked[p[1]]
        \/ pc[p[1]] = "waiting" /\ p[3] > acked[p[1]] + 1

\* No post is made twice, and one that no handler has begun has no results and
\* nothing in the graph.
PostsAreMadeOnce ==
  \A p \in Posts :
    /\ ToCome(p) => handler[p] = "unsent"
    /\ handler[p] \in {"unsent", "transit"} => results[p] = <<>> /\ \A x \in stored : x[1] # p

\* What a handler has stored is what it has results for, and the event it was
\* at when it failed.
WritesInOrder ==
  \A x \in stored :
    /\ x[2] <= Len(results[x[1]]) + 1
    /\ handler[x[1]] = "persisting" => x[2] <= Len(results[x[1]])

\* Results stand for what was stored, and there are no more counted than stored.
Counted == IsFiniteSet(stored) /\ ingested <= Cardinality(stored)

Inv2 ==
  /\ Inv1
  /\ PostsAreMadeOnce
  /\ WritesInOrder
  /\ ResultsAreTrue
  /\ Counted

LEMMA InitInv2 == Init => Inv2
<1> SUFFICES ASSUME Init PROVE Inv2
  OBVIOUS
<1>1. PostsAreMadeOnce /\ WritesInOrder /\ ResultsAreTrue
  BY DEF Init, PostsAreMadeOnce, WritesInOrder, ResultsAreTrue
<1>2. Counted
  BY FS_EmptySet DEF Init, Counted
<1> QED BY <1>1, <1>2, InitInv1 DEF Inv2

\* Steps that neither store, nor count, nor collect.
LEMMA QuietKeeps ==
  ASSUME Inv2, UNCHANGED <<results, stored>>, ingested' \in {ingested, 0},
         \A p \in Posts : handler'[p] = "persisting" => handler[p] \in {"transit", "persisting"}
  PROVE  WritesInOrder' /\ ResultsAreTrue' /\ Counted'
<1>1. ASSUME NEW x \in stored, handler'[x[1]] = "persisting"
      PROVE  x[2] <= Len(results[x[1]])
  <2>1. PICK p \in Posts : x[1] = p
    BY DEF Inv2, Inv1, Inv0, TypeOK, Items
  <2>2. handler[p] # "transit"
    BY <2>1 DEF Inv2, PostsAreMadeOnce
  <2> QED BY <1>1, <2>1, <2>2 DEF Inv2, WritesInOrder
<1>2. WritesInOrder'
  BY <1>1 DEF Inv2, WritesInOrder
<1>3. ResultsAreTrue'
  BY DEF Inv2, ResultsAreTrue
<1>4. Counted'
  <2>1. Cardinality(stored) \in Nat
    BY FS_CardinalityType DEF Inv2, Counted
  <2> QED BY <2>1 DEF Inv2, Counted
<1> QED BY <1>2, <1>3, <1>4

\* A step of a loader.
LEMMA LoaderInv2 ==
  ASSUME Inv2, Inv1', NEW l \in Loaders,
         Start(l) \/ Post(l) \/ Finish(l) \/ Respond(l) \/ TransportError(l)
  PROVE  Inv2'
<1>1. UNCHANGED <<results, stored, ingested>>
  BY DEF Start, Post, Finish, Respond, TransportError
<1>2. \A p \in Posts : handler'[p] \in {handler[p], "transit", "closed"}
  BY DEF Start, Post, Finish, Respond, TransportError, Inv2, Inv1, Inv0, TypeOK
<1>3. WritesInOrder' /\ ResultsAreTrue' /\ Counted'
  BY <1>1, <1>2, QuietKeeps
<1>4. ASSUME NEW p \in Posts  PROVE ToCome(p)' => ToCome(p) /\ handler'[p] = handler[p]
  <2>1. /\ p[1] \in Loaders /\ p[2] \in Nat /\ p[3] \in Nat
        /\ \A m \in Loaders : run[m] \in Nat /\ acked[m] \in Nat
    <3>1. p[1] \in Loaders /\ p[2] \in 1..MaxRuns /\ p[3] \in DOMAIN BatchesOf[p[1]]
      BY PostType
    <3>2. BatchesOf[p[1]] \in Seq(Seq(Event))
      BY <3>1, BatchAssumption DEF Event
    <3>3. p[2] \in Nat /\ p[3] \in Nat
      BY <3>1, <3>2, BatchAssumption
    <3>4. \A m \in Loaders : run[m] \in 0..MaxRuns /\ acked[m] \in Nat
      BY DEF Inv2, Inv1, Inv0, TypeOK
    <3> QED BY <3>1, <3>3, <3>4, BatchAssumption
  <2>2. \A m \in Loaders : m # l => /\ run'[m] = run[m] /\ acked'[m] = acked[m] /\ pc'[m] = pc[m]
    <3>1. TypeOK
      BY DEF Inv2, Inv1, Inv0
    <3> QED BY <3>1 DEF Start, Post, Finish, Respond, TransportError, TypeOK
  <2>3. p # Current(l) => handler'[p] = handler[p]
    BY DEF Start, Post, Finish, Respond, TransportError, Inv2, Inv1, Inv0, TypeOK
  <2>4. CASE p[1] # l
    BY <2>1, <2>2, <2>3, <2>4 DEF ToCome, Current
  <2>5. CASE p[1] = l /\ Start(l)
    <3>1. run'[l] = run[l] + 1 /\ UNCHANGED handler
      BY <2>5 DEF Start, Inv2, Inv1, Inv0, TypeOK
    <3> QED BY <2>1, <2>5, <3>1 DEF ToCome
  <2>6. CASE p[1] = l /\ Post(l)
    <3>1. pc[l] = "posting" /\ pc'[l] = "waiting" /\ UNCHANGED <<run, acked>>
      BY <2>6 DEF Post, Inv2, Inv1, Inv0, TypeOK
    <3>2. ToCome(p)' => p # Current(l) /\ ToCome(p)
      BY <2>1, <2>6, <3>1 DEF ToCome, Current
    <3> QED BY <2>3, <3>2
  <2>7. CASE p[1] = l /\ (Finish(l) \/ TransportError(l))
    <3>1. pc'[l] \in {"loaded", "failed"} /\ UNCHANGED <<run, acked, handler>>
      BY <2>7 DEF Finish, TransportError, Inv2, Inv1, Inv0, TypeOK
    <3> QED BY <2>1, <2>7, <3>1 DEF ToCome
  <2>8. CASE p[1] = l /\ Respond(l)
    <3>0. pc[l] = "waiting" /\ UNCHANGED run /\ pc'[l] = AfterReply(handler[Current(l)])
      BY <2>8 DEF Respond, Inv2, Inv1, Inv0, TypeOK
    <3>1. pc'[l] = "failed" \/ (pc'[l] = "posting" /\ acked'[l] = acked[l] + 1)
      <4>1. CASE AfterReply(handler[Current(l)]) = "posting"
        BY <2>8, <3>0, <4>1 DEF Respond, Inv2, Inv1, Inv0, TypeOK
      <4>2. CASE AfterReply(handler[Current(l)]) # "posting"
        BY <3>0, <4>2 DEF AfterReply
      <4> QED BY <4>1, <4>2
    <3>2. ToCome(p)' => p # Current(l) /\ ToCome(p)
      BY <2>1, <2>8, <3>0, <3>1 DEF ToCome, Current
    <3> QED BY <2>3, <3>2
  <2> QED BY <2>4, <2>5, <2>6, <2>7, <2>8
<1>5. ASSUME NEW p \in Posts, handler'[p] \in {"unsent", "transit"}
      PROVE  results[p] = <<>> /\ \A x \in stored : x[1] # p
  <2>1. CASE handler[p] \in {"unsent", "transit"}
    BY <2>1 DEF Inv2, PostsAreMadeOnce
  <2>2. CASE handler[p] \notin {"unsent", "transit"}
    <3>1. Post(l) /\ p = Current(l)
      BY <1>5, <2>2 DEF Start, Post, Finish, Respond, TransportError, Inv2, Inv1, Inv0, TypeOK
    <3>2. ToCome(p)
      BY <3>1 DEF Post, Current, ToCome, Inv2, Inv1, Inv0, TypeOK
    <3> QED BY <2>2, <3>2 DEF Inv2, PostsAreMadeOnce
  <2> QED BY <2>1, <2>2
<1>6. PostsAreMadeOnce'
  BY <1>1, <1>4, <1>5 DEF Inv2, PostsAreMadeOnce
<1> QED BY <1>3, <1>6 DEF Inv2

\* Handlers do not make posts.
LEMMA ServerKeepsPosts ==
  ASSUME Inv2, UNCHANGED loaderVars,
         \A p \in Posts :
           /\ handler[p] = "unsent" => handler'[p] = "unsent"
           /\ handler'[p] \in {"unsent", "transit"} =>
                /\ handler[p] \in {"unsent", "transit"}
                /\ results'[p] = results[p]
                /\ \A x \in stored' \ stored : x[1] # p
  PROVE  PostsAreMadeOnce'
BY DEF Inv2, PostsAreMadeOnce, ToCome, loaderVars

\* One more event is stored by the handler that is at it.
LEMMA CountOneMore ==
  ASSUME Counted, ingested \in Nat, NEW x, x \notin stored, stored' = stored \union {x},
         ingested' = ingested + 1 \/ ingested' = ingested
  PROVE  Counted'
<1>1. Cardinality(stored) \in Nat
  BY FS_CardinalityType DEF Counted
<1>2. IsFiniteSet(stored \union {x}) /\ Cardinality(stored \union {x}) = Cardinality(stored) + 1
  BY FS_AddElement DEF Counted
<1> QED BY <1>1, <1>2 DEF Counted

LEMMA CollectInv2 ==
  ASSUME Inv2, Inv1', NEW p \in Posts, Collect(p)
  PROVE  Inv2'
<1>1. PICK n \in Nat : n = Len(results[p])
  BY DEF Inv2, Inv1, Inv0, TypeOK
<1>2. PICK x : x = <<p, n + 1>>
  OBVIOUS
<1>3. At(p) = x /\ x[1] = p /\ x[2] = n + 1
  BY <1>1, <1>2 DEF At
<1>4. /\ handler[p] = "persisting" /\ UNCHANGED loaderVars /\ UNCHANGED handler
      /\ results' = [results EXCEPT ![p] = Append(results[p], Outcome(x))]
      /\ (EventOf(x).kind = "valid" /\ ~IsTaken(x)) =>
           stored' = stored \union {x} /\ ingested' = ingested + 1
      /\ ~(EventOf(x).kind = "valid" /\ ~IsTaken(x)) => UNCHANGED <<stored, ingested>>
  BY <1>3 DEF Collect, Persisting
<1>5. EventOf(x).kind \in {"valid", "invalid"}
  <2>1. EventOf(x) \in Event /\ EventOf(x).kind \notin Raising
    BY <1>3, AtType, PostType DEF Collect, Inv2, Inv1, Inv0
  <2> QED BY <2>1 DEF Event, Kinds, Raising
<1>6. x \notin stored
  BY <1>1, <1>3, <1>4 DEF Inv2, WritesInOrder
<1>7. results[p] \in Seq(Results) /\ results \in [Posts -> Seq(Results)]
  BY DEF Inv2, Inv1, Inv0, TypeOK
<1>8. /\ Len(results'[p]) = n + 1 /\ results'[p][n + 1] = Outcome(x)
      /\ \A i \in DOMAIN results[p] : results'[p][i] = results[p][i]
      /\ DOMAIN results'[p] = DOMAIN results[p] \union {n + 1}
      /\ \A q \in Posts : q # p => results'[q] = results[q]
  BY <1>1, <1>4, <1>7
<1>9. stored' = stored \/ stored' = stored \union {x}
  BY <1>4
<1>10. PostsAreMadeOnce'
  BY <1>3, <1>4, <1>8, <1>9, ServerKeepsPosts
<1>11. WritesInOrder'
  <2> SUFFICES ASSUME NEW y \in stored'
               PROVE  /\ y[2] <= Len(results'[y[1]]) + 1
                      /\ handler'[y[1]] = "persisting" => y[2] <= Len(results'[y[1]])
    BY DEF WritesInOrder
  <2>1. CASE y = x
    BY <1>3, <1>8, <2>1
  <2>2. CASE y \in stored /\ y[1] # p
    <3>1. y[1] \in Posts
      BY <2>2 DEF Inv2, Inv1, Inv0, TypeOK, Items
    <3> QED BY <1>4, <1>8, <2>2, <3>1 DEF Inv2, WritesInOrder
  <2>3. CASE y \in stored /\ y[1] = p
    <3>1. y[2] <= n
      BY <1>1, <1>4, <2>3 DEF Inv2, WritesInOrder
    <3>2. y[2] \in Nat
      <4>1. PICK q \in Posts : y \in {q} \X DOMAIN Batch(q)
        BY <2>3 DEF Inv2, Inv1, Inv0, TypeOK, Items
      <4>2. Batch(q) \in Seq(Event) /\ y[2] \in DOMAIN Batch(q)
        BY <4>1, PostType
      <4> QED BY <4>2
    <3> QED BY <1>8, <2>3, <3>1, <3>2
  <2> QED BY <1>9, <2>1, <2>2, <2>3
<1>12. ResultsAreTrue'
  <2> SUFFICES ASSUME NEW q \in Posts, NEW i \in DOMAIN results'[q], NEW y, y = <<q, i>>
               PROVE  /\ results'[q][i] = "accepted" <=> y \in stored'
                      /\ results'[q][i] = "duplicate" =>
                           \E z \in stored' \ {y} : EventOf(z).eventId = EventOf(y).eventId
                      /\ results'[q][i] = "invalid" <=> EventOf(y).kind = "invalid"
    BY DEF ResultsAreTrue
  <2>1. CASE q = p /\ i = n + 1
    <3>1. y = x /\ results'[q][i] = Outcome(x)
      BY <1>2, <1>8, <2>1
    <3>2. CASE EventOf(x).kind = "invalid"
      BY <1>4, <1>6, <3>1, <3>2 DEF Outcome
    <3>3. CASE EventOf(x).kind = "valid" /\ IsTaken(x)
      <4>1. PICK z \in stored : EventOf(z).eventId = EventOf(x).eventId
        BY <3>3 DEF IsTaken
      <4>2. z \in stored' \ {x} /\ x \notin stored'
        BY <1>4, <1>6, <3>3
      <4>3. Outcome(x) = "duplicate"
        BY <3>3 DEF Outcome
      <4> QED BY <3>1, <3>3, <4>1, <4>2, <4>3
    <3>4. CASE EventOf(x).kind = "valid" /\ ~IsTaken(x)
      BY <1>4, <3>1, <3>4 DEF Outcome
    <3> QED BY <1>5, <3>2, <3>3, <3>4
  <2>2. CASE q # p \/ (q = p /\ i \in DOMAIN results[p])
    <3>1. i \in DOMAIN results[q] /\ results'[q][i] = results[q][i]
      BY <1>8, <2>2
    <3>2. y # x
      <4>1. DOMAIN results[p] = 1..n
        BY <1>1, <1>7
      <4> QED BY <1>2, <2>2, <4>1
    <3>3. /\ results[q][i] = "accepted" <=> y \in stored
          /\ results[q][i] = "duplicate" =>
               \E z \in stored \ {y} : EventOf(z).eventId = EventOf(y).eventId
          /\ results[q][i] = "invalid" <=> EventOf(y).kind = "invalid"
      BY <3>1 DEF Inv2, ResultsAreTrue
    <3> QED BY <1>9, <3>1, <3>2, <3>3
  <2> QED BY <1>8, <2>1, <2>2
<1>13. Counted'
  <2>1. ingested \in Nat
    BY DEF Inv2, Inv1, Inv0, TypeOK
  <2>2. CASE UNCHANGED <<stored, ingested>>
    BY <2>2 DEF Inv2, Counted
  <2>3. CASE stored' = stored \union {x} /\ ingested' = ingested + 1
    BY <1>6, <2>1, <2>3, CountOneMore DEF Inv2
  <2> QED BY <1>4, <2>2, <2>3
<1> QED BY <1>10, <1>11, <1>12, <1>13 DEF Inv2

LEMMA DatabaseErrorInv2 ==
  ASSUME Inv2, Inv1', NEW p \in Posts, DatabaseError(p)
  PROVE  Inv2'
<1>1. PICK x : x = At(p)
  OBVIOUS
<1>2. x[1] = p /\ x[2] = Len(results[p]) + 1 /\ Len(results[p]) \in Nat
  BY <1>1 DEF At, Inv2, Inv1, Inv0, TypeOK
<1>3. /\ handler[p] = "persisting" /\ UNCHANGED loaderVars /\ UNCHANGED <<results, ingested>>
      /\ handler' = [handler EXCEPT ![p] = "5xx"]
      /\ stored' = stored \/ (~IsTaken(x) /\ stored' = stored \union {x})
  BY <1>1 DEF DatabaseError, Persisting
<1>4. x \notin stored
  BY <1>2, <1>3 DEF Inv2, WritesInOrder
<1>5. \A q \in Posts : handler'[q] = IF q = p THEN "5xx" ELSE handler[q]
  BY <1>3 DEF Inv2, Inv1, Inv0, TypeOK
<1>6. PostsAreMadeOnce'
  BY <1>2, <1>3, <1>5, ServerKeepsPosts
<1>7. WritesInOrder'
  <2> SUFFICES ASSUME NEW y \in stored'
               PROVE  /\ y[2] <= Len(results[y[1]]) + 1
                      /\ handler'[y[1]] = "persisting" => y[2] <= Len(results[y[1]])
    BY <1>3 DEF WritesInOrder
  <2>1. CASE y = x
    BY <1>2, <1>5, <2>1
  <2>2. CASE y \in stored
    <3>1. y[1] \in Posts
      BY <2>2 DEF Inv2, Inv1, Inv0, TypeOK, Items
    <3> QED BY <1>5, <2>2, <3>1 DEF Inv2, WritesInOrder
  <2> QED BY <1>3, <2>1, <2>2
<1>8. ResultsAreTrue'
  <2> SUFFICES ASSUME NEW q \in Posts, NEW i \in DOMAIN results[q], NEW y, y = <<q, i>>
               PROVE  /\ results[q][i] = "accepted" <=> y \in stored'
                      /\ results[q][i] = "duplicate" =>
                           \E z \in stored' \ {y} : EventOf(z).eventId = EventOf(y).eventId
                      /\ results[q][i] = "invalid" <=> EventOf(y).kind = "invalid"
    BY <1>3 DEF ResultsAreTrue
  <2>1. y # x
    <3>1. results[q] \in Seq(Results)
      BY DEF Inv2, Inv1, Inv0, TypeOK
    <3>2. i <= Len(results[q]) /\ i \in Nat
      BY <3>1
    <3> QED BY <1>2, <3>2
  <2>2. /\ results[q][i] = "accepted" <=> y \in stored
        /\ results[q][i] = "duplicate" =>
             \E z \in stored \ {y} : EventOf(z).eventId = EventOf(y).eventId
        /\ results[q][i] = "invalid" <=> EventOf(y).kind = "invalid"
    BY DEF Inv2, ResultsAreTrue
  <2> QED BY <1>3, <2>1, <2>2
<1>9. Counted'
  <2>1. ingested \in Nat
    BY DEF Inv2, Inv1, Inv0, TypeOK
  <2>2. CASE stored' = stored
    BY <1>3, <2>2 DEF Inv2, Counted
  <2>3. CASE stored' = stored \union {x}
    BY <1>3, <1>4, <2>1, <2>3, CountOneMore DEF Inv2
  <2> QED BY <1>3, <2>2, <2>3
<1> QED BY <1>6, <1>7, <1>8, <1>9 DEF Inv2

LEMMA StepInv2 == Inv2 /\ [Next]_vars => Inv2'
<1> SUFFICES ASSUME Inv2, [Next]_vars PROVE Inv2'
  OBVIOUS
<1>1. Inv1'
  BY StepInv1 DEF Inv2
<1>2. ASSUME NEW l \in Loaders,
             Start(l) \/ Post(l) \/ Finish(l) \/ Respond(l) \/ TransportError(l)
      PROVE  Inv2'
  BY <1>1, <1>2, LoaderInv2
<1>3. ASSUME NEW p \in Posts,
             Lose(p) \/ Receive(p) \/ Throttle(p) \/ Answer(p) \/ Refuse(p)
      PROVE  Inv2'
  <2>1. UNCHANGED loaderVars /\ UNCHANGED <<results, stored, ingested>>
    BY <1>3 DEF Lose, Receive, Throttle, Answer, Refuse
  <2>2. /\ handler[p] # "unsent" /\ handler'[p] \notin {"unsent", "transit"}
        /\ \A q \in Posts : q # p => handler'[q] = handler[q]
        /\ handler'[p] = "persisting" => handler[p] = "transit"
    BY <1>3 DEF Lose, Receive, Throttle, Answer, Refuse, Persisting, Verdict, Replies,
                Inv2, Inv1, Inv0, TypeOK
  <2>3. PostsAreMadeOnce'
    BY <2>1, <2>2, ServerKeepsPosts
  <2> QED BY <1>1, <2>1, <2>2, <2>3, QuietKeeps DEF Inv2
<1>4. ASSUME NEW p \in Posts, Collect(p)  PROVE Inv2'
  BY <1>1, <1>4, CollectInv2
<1>5. ASSUME NEW p \in Posts, DatabaseError(p)  PROVE Inv2'
  BY <1>1, <1>5, DatabaseErrorInv2
<1>6. CASE Crash
  <2>1. /\ UNCHANGED loaderVars /\ UNCHANGED <<results, stored>> /\ ingested' = 0
        /\ \A q \in Posts : handler'[q] = IF handler[q] = "persisting" THEN "closed" ELSE handler[q]
    BY <1>6 DEF Crash
  <2>2. PostsAreMadeOnce'
    BY <2>1, ServerKeepsPosts
  <2> QED BY <1>1, <2>1, <2>2, QuietKeeps DEF Inv2
<1>7. CASE UNCHANGED vars
  <2>1. UNCHANGED loaderVars /\ UNCHANGED <<results, stored, ingested, handler>>
    BY <1>7 DEF vars, loaderVars
  <2>2. PostsAreMadeOnce'
    BY <2>1, ServerKeepsPosts
  <2> QED BY <1>1, <2>1, <2>2, QuietKeeps DEF Inv2
<1> QED BY <1>2, <1>3, <1>4, <1>5, <1>6, <1>7 DEF Next, Quiescent

LEMMA SpecInv2 == Spec => []Inv2
BY InitInv2, StepInv2, PTL DEF Spec

\* Each result of a batch says truly what happened to its event, whatever other
\* handlers write at the same time (_persist_batch_event).
THEOREM ResultsTellTheTruth == Spec => []ResultsAreTrue
<1>1. Inv2 => ResultsAreTrue
  BY DEF Inv2
<1> QED BY <1>1, SpecInv2, PTL

\* A handler that fails or dies half way has written its events in order, up to
\* the one that it was at (_persist_batch).
THEOREM FailuresLeavePrefixes == Spec => []FailureLeavesPrefix
<1>1. Inv2 => FailureLeavesPrefix
  BY DEF Inv2, Inv1, ResultsAreDone, IsDone, WritesInOrder, FailureLeavesPrefix
<1> QED BY <1>1, SpecInv2, PTL

\* No handler counts an event that is not in the graph (events_ingested_total).
THEOREM CountedEventsAreStored == Spec => []CountedIsStored
<1>1. Inv2 => CountedIsStored
  BY DEF Inv2, Counted, CountedIsStored
<1> QED BY <1>1, SpecInv2, PTL

-----------------------------------------------------------------------------
(***************************************************************************)
(* What a load reports.  It holds for the loader that takes the totals of  *)
(* the answers: the other one counts no success, whatever it stores.       *)
(***************************************************************************)

ItemsOf(p) == {p} \X DOMAIN Batch(p)

\* The events of the batches that a loader has an answer for in this run.
Answered(l) == {x \in Items : x[1][1] = l /\ x[1][2] = run[l] /\ x[1][3] <= acked[l]}

\* Nobody works at a batch that its loader has an answer for: what is said of
\* its events cannot become untrue by a late write.
AckedAreClosed ==
  \A p \in Posts : p[2] = run[p[1]] /\ p[3] <= acked[p[1]] =>
    handler[p] = "closed" /\ Len(results[p]) = Len(Batch(p))

\* The counts are those of the events that were answered for so far.
ReportsSoFar ==
  \A l \in Loaders : Tool[l] = "shops" =>
    /\ IsFiniteSet(Answered(l))
    /\ report[l].succeeded = Cardinality(Answered(l) \intersect stored)
    /\ report[l].failed = Cardinality(Answered(l) \ stored)

Inv3 == Inv2 /\ AckedAreClosed /\ ReportsSoFar

\* The numbers of a post and of its loader's places are natural.
LEMMA PlacesType ==
  ASSUME Inv2, NEW p \in Posts
  PROVE  /\ p[1] \in Loaders /\ p[2] \in Nat /\ p[3] \in Nat \ {0}
         /\ run[p[1]] \in Nat /\ acked[p[1]] \in Nat
<1>1. p[1] \in Loaders /\ p[2] \in 1..MaxRuns /\ p[3] \in DOMAIN BatchesOf[p[1]]
  BY PostType
<1>2. BatchesOf[p[1]] \in Seq(Seq(Event))
  BY <1>1, BatchAssumption DEF Event
<1>3. run[p[1]] \in 0..MaxRuns /\ acked[p[1]] \in Nat
  BY <1>1 DEF Inv2, Inv1, Inv0, TypeOK
<1> QED BY <1>1, <1>2, <1>3, BatchAssumption

\* The loader, the run and the number of the batch say which post it is.
LEMMA PostIsTriple ==
  ASSUME NEW p \in Posts
  PROVE  p = <<p[1], p[2], p[3]>>
BY DEF Posts

\* The events of an answered batch: as many as it has, and as many in the graph
\* as its results say.
LEMMA ResultsCountStored ==
  ASSUME Inv2, NEW p \in Posts, Len(results[p]) = Len(Batch(p))
  PROVE  LET n == CountOf(results[p], {"accepted"})
         IN  /\ IsFiniteSet(ItemsOf(p))
             /\ n \in Nat
             /\ n = Cardinality(ItemsOf(p) \intersect stored)
             /\ Len(results[p]) - n = Cardinality(ItemsOf(p) \ stored)
<1> DEFINE rs == results[p]
           D == 1..Len(rs)
           S == {i \in D : rs[i] \in {"accepted"}}
           n == Cardinality(S)
           All == ItemsOf(p)
           In == All \intersect stored
           Out == All \ stored
<1>1. rs \in Seq(Results) /\ Batch(p) \in Seq(Event) /\ Len(rs) \in Nat
  BY PostType DEF Inv2, Inv1, Inv0, TypeOK
<1>2. DOMAIN rs = D /\ DOMAIN Batch(p) = D
  BY <1>1
<1>3. IsFiniteSet(D) /\ Cardinality(D) = Len(rs)
  <2> DEFINE m == Len(rs)
  <2>1. m \in Int /\ 1 \in Int /\ m - 1 + 1 = m /\ (1 > m <=> m = 0)
    BY <1>1
  <2> HIDE DEF m
  <2>2. IsFiniteSet(1..m) /\ Cardinality(1..m) = m
    BY <2>1, FS_Interval
  <2> QED BY <2>2 DEF m
<1>4. IsFiniteSet(S) /\ n \in Nat
  BY <1>3, FS_Subset, FS_CardinalityType
<1>5. IsFiniteSet(All) /\ Cardinality(All) = Len(rs)
  <2> DEFINE f == [i \in D |-> <<p, i>>]
  <2>1. \A x \in All : \E i \in D : x = <<p, i>>
    BY <1>2 DEF ItemsOf
  <2>2. \A i \in D : <<p, i>> \in All
    BY <1>2 DEF ItemsOf
  <2> HIDE DEF D, All
  <2>3. f \in [D -> All] /\ \A i \in D : f[i] = <<p, i>>
    BY <2>2
  <2>4. f \in Bijection(D, All)
    <3> HIDE DEF f
    <3> QED BY <2>1, <2>3 DEF Bijection, Injection, IsInjective, Surjection
  <2> QED BY <1>3, <2>4, FS_Bijection DEF ExistsBijection
<1>6. Cardinality(In) = n
  <2> DEFINE f == [i \in S |-> <<p, i>>]
  <2>1. \A i \in D : i \in S <=> <<p, i>> \in stored
    BY <1>2 DEF Inv2, ResultsAreTrue
  <2>2. \A x \in In : \E i \in S : x = <<p, i>>
    BY <1>2, <2>1 DEF ItemsOf
  <2>3. \A i \in S : <<p, i>> \in In
    BY <1>2, <2>1 DEF ItemsOf
  <2> HIDE DEF S, In
  <2>4. f \in [S -> In] /\ \A i \in S : f[i] = <<p, i>>
    BY <2>3
  <2>5. f \in Bijection(S, In)
    <3> HIDE DEF f
    <3> QED BY <2>2, <2>4 DEF Bijection, Injection, IsInjective, Surjection
  <2> QED BY <1>4, <2>5, FS_Bijection DEF ExistsBijection
<1>7. IsFiniteSet(In) /\ IsFiniteSet(Out) /\ In \union Out = All /\ In \intersect Out = {}
  BY <1>5, FS_Subset
<1>8. Cardinality(In) \in Nat /\ Cardinality(Out) \in Nat
  BY <1>7, FS_CardinalityType
<1>9. Cardinality(All) = Cardinality(In) + Cardinality(Out)
  <2> HIDE DEF In, Out, All
  <2>1. Cardinality(All) = Cardinality(In) + Cardinality(Out) - Cardinality({})
    BY <1>7, FS_Union
  <2> QED BY <1>8, <2>1, FS_EmptySet
<1>10. n = CountOf(rs, {"accepted"})
  BY <1>2 DEF CountOf
<1> HIDE DEF In, Out, All, S, n
<1>11. Len(rs) - n = Cardinality(Out)
  BY <1>1, <1>4, <1>5, <1>6, <1>8, <1>9
<1> QED BY <1>4, <1>5, <1>6, <1>10, <1>11 DEF In, Out, All

LEMMA InitInv3 == Init => Inv3
<1> SUFFICES ASSUME Init PROVE Inv3
  OBVIOUS
<1>1. Inv2
  BY InitInv2
<1>2. \A p \in Posts : ~(p[3] <= acked[p[1]])
  BY <1>1, PlacesType DEF Init
<1>3. \A l \in Loaders : Answered(l) = {}
  <2> SUFFICES ASSUME NEW l \in Loaders, NEW x \in Items, x[1][1] = l, x[1][3] <= acked[l]
               PROVE  FALSE
    BY DEF Answered
  <2>1. x[1] \in Posts
    BY DEF Items
  <2> QED BY <1>2, <2>1
<1>4. ReportsSoFar
  BY <1>3, FS_EmptySet DEF Init, ReportsSoFar
<1> QED BY <1>1, <1>2, <1>4 DEF Inv3, AckedAreClosed

\* Steps that leave the counts alone, and the batches that were answered.
LEMMA AnsweredStays ==
  ASSUME Inv3, UNCHANGED <<run, acked, report>>, stored \subseteq stored',
         \A x \in stored' \ stored : handler[x[1]] # "closed",
         \A p \in Posts : p[2] = run[p[1]] /\ p[3] <= acked[p[1]] /\ handler[p] = "closed" =>
           handler'[p] = "closed" /\ results'[p] = results[p]
  PROVE  AckedAreClosed' /\ ReportsSoFar'
<1>1. AckedAreClosed'
  BY DEF Inv3, AckedAreClosed
<1>2. ASSUME NEW l \in Loaders
      PROVE  /\ Answered(l)' = Answered(l)
             /\ Answered(l) \intersect stored' = Answered(l) \intersect stored
             /\ Answered(l) \ stored' = Answered(l) \ stored
  <2>1. Answered(l)' = Answered(l)
    BY DEF Answered
  <2>2. \A x \in Answered(l) : handler[x[1]] = "closed"
    <3>1. \A x \in Answered(l) :
            x[1] \in Posts /\ x[1][1] = l /\ x[1][2] = run[l] /\ x[1][3] <= acked[l]
      BY DEF Answered, Items
    <3> QED BY <3>1 DEF Inv3, AckedAreClosed
  <2>3. \A x \in Answered(l) : x \in stored' <=> x \in stored
    BY <2>2
  <2> QED BY <2>1, <2>3
<1>3. ReportsSoFar'
  <2> SUFFICES ASSUME NEW l \in Loaders, Tool[l] = "shops"
               PROVE  /\ IsFiniteSet(Answered(l)')
                      /\ report'[l].succeeded = Cardinality(Answered(l)' \intersect stored')
                      /\ report'[l].failed = Cardinality(Answered(l)' \ stored')
    BY DEF ReportsSoFar
  <2>1. /\ IsFiniteSet(Answered(l))
        /\ report[l].succeeded = Cardinality(Answered(l) \intersect stored)
        /\ report[l].failed = Cardinality(Answered(l) \ stored)
    BY DEF Inv3, ReportsSoFar
  <2>2. /\ Answered(l)' = Answered(l)
        /\ Answered(l) \intersect stored' = Answered(l) \intersect stored
        /\ Answered(l) \ stored' = Answered(l) \ stored
    BY <1>2
  <2> QED BY <2>1, <2>2
<1> QED BY <1>1, <1>3

\* A step of a loader that gets no answer.
LEMMA LoaderInv3 ==
  ASSUME Inv3, Inv2', NEW l \in Loaders, Post(l) \/ Finish(l) \/ TransportError(l)
  PROVE  Inv3'
<1>1. UNCHANGED <<run, acked, report, results, stored>>
  BY DEF Post, Finish, TransportError
<1>2. ASSUME NEW p \in Posts, p[2] = run[p[1]], p[3] <= acked[p[1]], handler[p] = "closed"
      PROVE  handler'[p] = "closed"
  <2>1. p # Current(l)
    BY <1>2, PlacesType DEF Current, Inv3
  <2> QED BY <1>2, <2>1 DEF Post, Finish, TransportError, Inv3, Inv2, Inv1, Inv0, TypeOK
<1> QED BY <1>1, <1>2, AnsweredStays DEF Inv3

\* A run begins with nothing answered.
LEMMA StartInv3 ==
  ASSUME Inv3, Inv2', NEW l \in Loaders, Start(l)
  PROVE  Inv3'
<1>1. /\ UNCHANGED <<handler, results, stored>>
      /\ acked'[l] = 0 /\ report'[l] = [succeeded |-> 0, failed |-> 0]
      /\ \A m \in Loaders : m # l =>
           run'[m] = run[m] /\ acked'[m] = acked[m] /\ report'[m] = report[m]
  BY DEF Start, Inv3, Inv2, Inv1, Inv0, TypeOK
<1>2. \A p \in Posts : p[3] > 0 /\ p[1] \in Loaders
  BY PlacesType DEF Inv3
<1>3. AckedAreClosed'
  <2> SUFFICES ASSUME NEW p \in Posts, p[2] = run'[p[1]], p[3] <= acked'[p[1]]
               PROVE  handler[p] = "closed" /\ Len(results[p]) = Len(Batch(p))
    BY <1>1 DEF AckedAreClosed, Batch
  <2>1. p[1] # l
    <3>1. p[3] \in Nat
      BY PlacesType DEF Inv3
    <3> QED BY <1>1, <1>2, <3>1
  <2> QED BY <1>1, <1>2, <2>1 DEF Inv3, AckedAreClosed
<1>4. Answered(l)' = {}
  <2> SUFFICES ASSUME NEW x \in Items, x[1][1] = l, x[1][3] <= acked'[l]
               PROVE  FALSE
    BY DEF Answered
  <2>1. x[1] \in Posts
    BY DEF Items
  <2>2. x[1][3] \in Nat
    BY <2>1, PlacesType DEF Inv3
  <2> QED BY <1>1, <1>2, <2>1, <2>2
<1>5. \A m \in Loaders : m # l => Answered(m)' = Answered(m)
  BY <1>1 DEF Answered
<1>6. ReportsSoFar'
  BY <1>1, <1>4, <1>5, FS_EmptySet DEF Inv3, ReportsSoFar
<1> QED BY <1>3, <1>6 DEF Inv3

\* The counts of one more batch.
LEMMA RespondInv3 ==
  ASSUME Inv3, Inv2', NEW l \in Loaders, Respond(l)
  PROVE  Inv3'
<1> DEFINE p == Current(l)
           rs == results[p]
           ok == Succeeded(l, rs)
<1>1. /\ pc[l] = "waiting" /\ UNCHANGED <<run, results, stored>>
      /\ handler' = [handler EXCEPT ![p] = "closed"]
  BY DEF Respond
<1>2. p \in Posts /\ p = <<l, run[l], acked[l] + 1>>
  BY <1>1, CurrentType DEF Inv3, Inv2, Inv1, Inv0, Places, Current
<1>3. acked[l] \in Nat /\ run[l] \in Nat
  BY <1>2, PlacesType DEF Inv3
<1>4. \A q \in Posts : handler'[q] = IF q = p THEN "closed" ELSE handler[q]
  BY <1>1 DEF Inv3, Inv2, Inv1, Inv0, TypeOK
<1>5. CASE AfterReply(handler[p]) # "posting"
  <2>1. UNCHANGED <<acked, report>>
    BY <1>5 DEF Respond
  <2> QED BY <1>1, <1>4, <2>1, AnsweredStays DEF Inv3
<1>6. CASE AfterReply(handler[p]) = "posting"
  <2>1. /\ acked' = [acked EXCEPT ![l] = acked[l] + 1]
        /\ report' = [report EXCEPT ![l] = [succeeded |-> report[l].succeeded + ok,
                                            failed |-> report[l].failed + (Len(rs) - ok)]]
    BY <1>6 DEF Respond
  <2>2. acked \in [Loaders -> Nat] /\ report \in [Loaders -> [succeeded : Nat, failed : Nat]]
    BY DEF Inv3, Inv2, Inv1, Inv0, TypeOK
  <2>3. /\ acked'[l] = acked[l] + 1
        /\ report'[l].succeeded = report[l].succeeded + ok
        /\ report'[l].failed = report[l].failed + (Len(rs) - ok)
        /\ \A m \in Loaders : m # l => acked'[m] = acked[m] /\ report'[m] = report[m]
    BY <2>1, <2>2
  <2>4. handler[p] = "200"
    BY <1>6 DEF AfterReply
  <2>5. Len(rs) = Len(Batch(p))
    BY <1>2, <2>4 DEF Inv3, Inv2, Inv1, AnswersAreFull
  <2>6. \A q \in Posts : q[1] = l /\ q[2] = run[l] /\ q[3] <= acked[l] + 1 =>
                          q = p \/ q[3] <= acked[l]
    <3> SUFFICES ASSUME NEW q \in Posts, q[1] = l, q[2] = run[l], q[3] <= acked[l] + 1,
                        ~(q[3] <= acked[l])
                 PROVE  q = p
      OBVIOUS
    <3>1. q[3] \in Nat
      BY PlacesType DEF Inv3
    <3>2. q[3] = acked[l] + 1
      BY <1>3, <3>1
    <3> QED BY <1>2, <3>2, PostIsTriple
  <2>7. AckedAreClosed'
    <3> SUFFICES ASSUME NEW q \in Posts, q[2] = run[q[1]], q[3] <= acked'[q[1]]
                 PROVE  handler'[q] = "closed" /\ Len(results[q]) = Len(Batch(q))
      BY <1>1 DEF AckedAreClosed, Batch
    <3>1. q[1] \in Loaders
      BY PostType
    <3>2. q = p \/ q[3] <= acked[q[1]]
      BY <2>3, <2>6, <3>1
    <3> QED BY <1>4, <2>5, <3>2 DEF Inv3, AckedAreClosed
  <2>8. \A m \in Loaders : m # l => Answered(m)' = Answered(m)
    BY <1>1, <2>3 DEF Answered
  <2>9. ASSUME Tool[l] = "shops"
        PROVE  /\ IsFiniteSet(Answered(l)')
               /\ report'[l].succeeded = Cardinality(Answered(l)' \intersect stored)
               /\ report'[l].failed = Cardinality(Answered(l)' \ stored)
    <3> DEFINE A == Answered(l)
               B == ItemsOf(p)
               AIn == A \intersect stored
               BIn == B \intersect stored
               AOut == A \ stored
               BOut == B \ stored
    <3>1. ok = CountOf(rs, {"accepted"})
      BY <2>9 DEF Succeeded
    <3>2. /\ IsFiniteSet(B) /\ ok \in Nat
          /\ ok = Cardinality(BIn) /\ Len(rs) - ok = Cardinality(BOut)
      BY <1>2, <2>5, <3>1, ResultsCountStored DEF Inv3
    <3>3. /\ IsFiniteSet(A)
          /\ report[l].succeeded = Cardinality(AIn) /\ report[l].failed = Cardinality(AOut)
      BY <2>9 DEF Inv3, ReportsSoFar
    <3>4. \A x : x \in Answered(l)' <=> x \in A \/ x \in B
      <4>1. ASSUME NEW x \in Items, x[1][1] = l, x[1][2] = run[l], x[1][3] <= acked[l] + 1
            PROVE  x[1][3] <= acked[l] \/ x \in B
        <5>1. x[1] \in Posts /\ x \in {x[1]} \X DOMAIN Batch(x[1])
          BY DEF Items
        <5> QED BY <2>6, <4>1, <5>1 DEF ItemsOf
      <4>2. ASSUME NEW x \in B
            PROVE  x \in Items /\ x[1] = p
        BY <1>2 DEF Items, ItemsOf
      <4>3. ASSUME NEW x \in A PROVE x[1][3] <= acked[l] + 1
        <5>1. x[1] \in Posts /\ x[1][3] <= acked[l]
          BY <4>3 DEF Answered, Items
        <5>2. x[1][3] \in Nat
          BY <5>1, PlacesType DEF Inv3
        <5> QED BY <1>3, <5>1, <5>2
      <4>4. Answered(l)' = {x \in Items : x[1][1] = l /\ x[1][2] = run[l] /\ x[1][3] <= acked[l] + 1}
        BY <1>1, <2>3 DEF Answered
      <4>5. p[1] = l /\ p[2] = run[l] /\ p[3] <= acked[l] + 1
        BY <1>2, <1>3
      <4> QED BY <4>1, <4>2, <4>3, <4>4, <4>5 DEF Answered
    <3>5. A \intersect B = {}
      <4> SUFFICES ASSUME NEW x \in A, x \in B PROVE FALSE
        OBVIOUS
      <4>1. x[1] = p
        BY DEF ItemsOf
      <4> QED BY <1>2, <1>3, <4>1 DEF Answered
    <3>6. /\ IsFiniteSet(AIn) /\ IsFiniteSet(BIn) /\ IsFiniteSet(AOut) /\ IsFiniteSet(BOut)
      BY <3>2, <3>3, FS_Subset
    <3>7. /\ Cardinality(AIn) \in Nat /\ Cardinality(BIn) \in Nat
          /\ Cardinality(AOut) \in Nat /\ Cardinality(BOut) \in Nat
      BY <3>6, FS_CardinalityType
    <3>8. /\ Answered(l)' = A \union B
          /\ Answered(l)' \intersect stored = AIn \union BIn
          /\ Answered(l)' \ stored = AOut \union BOut
          /\ AIn \intersect BIn = {} /\ AOut \intersect BOut = {}
      BY <3>4, <3>5
    <3> HIDE DEF A, B, AIn, BIn, AOut, BOut
    <3>9. IsFiniteSet(A \union B)
      BY <3>2, <3>3, FS_Union
    <3>10. /\ Cardinality(AIn \union BIn) = Cardinality(AIn) + Cardinality(BIn) - Cardinality({})
           /\ Cardinality(AOut \union BOut) = Cardinality(AOut) + Cardinality(BOut) - Cardinality({})
      BY <3>6, <3>8, FS_Union
    <3>11. Cardinality({}) = 0
      BY FS_EmptySet
    <3> HIDE DEF ok, rs
    <3>12. /\ report'[l].succeeded = Cardinality(AIn \union BIn)
           /\ report'[l].failed = Cardinality(AOut \union BOut)
      BY <2>3, <3>2, <3>3, <3>7, <3>10, <3>11
    <3> QED BY <3>8, <3>9, <3>12
  <2>10. ReportsSoFar'
    <3> SUFFICES ASSUME NEW m \in Loaders, Tool[m] = "shops"
                 PROVE  /\ IsFiniteSet(Answered(m)')
                        /\ report'[m].succeeded = Cardinality(Answered(m)' \intersect stored)
                        /\ report'[m].failed = Cardinality(Answered(m)' \ stored)
      BY <1>1 DEF ReportsSoFar
    <3>1. CASE m = l
      BY <2>9, <3>1
    <3>2. CASE m # l
      BY <2>3, <2>8, <3>2 DEF Inv3, ReportsSoFar
    <3> QED BY <3>1, <3>2
  <2> QED BY <2>7, <2>10 DEF Inv3
<1> QED BY <1>5, <1>6

LEMMA StepInv3 == Inv3 /\ [Next]_vars => Inv3'
<1> SUFFICES ASSUME Inv3, [Next]_vars PROVE Inv3'
  OBVIOUS
<1>1. Inv2'
  BY StepInv2 DEF Inv3
<1>2. ASSUME NEW l \in Loaders,
             Start(l) \/ Post(l) \/ Finish(l) \/ Respond(l) \/ TransportError(l)
      PROVE  Inv3'
  BY <1>1, <1>2, StartInv3, LoaderInv3, RespondInv3
<1>3. ASSUME NEW p \in Posts,
             Lose(p) \/ Receive(p) \/ Throttle(p) \/ Answer(p) \/ Refuse(p)
      PROVE  Inv3'
  <2>1. UNCHANGED <<run, acked, report>> /\ UNCHANGED <<results, stored>>
    BY <1>3 DEF Lose, Receive, Throttle, Answer, Refuse, loaderVars
  <2>2. \A q \in Posts : handler[q] = "closed" => handler'[q] = "closed"
    BY <1>3 DEF Lose, Receive, Throttle, Answer, Refuse, Persisting, Replies,
                Inv3, Inv2, Inv1, Inv0, TypeOK
  <2> QED BY <1>1, <2>1, <2>2, AnsweredStays DEF Inv3
<1>4. ASSUME NEW p \in Posts, Collect(p) \/ DatabaseError(p)
      PROVE  Inv3'
  <2>1. UNCHANGED <<run, acked, report>> /\ handler[p] = "persisting"
    BY <1>4 DEF Collect, DatabaseError, Persisting, loaderVars
  <2>2. stored' = stored \/ stored' = stored \union {At(p)}
    BY <1>4 DEF Collect, DatabaseError
  <2>3. At(p)[1] = p
    BY DEF At
  <2>4. \A q \in Posts : q # p => handler'[q] = handler[q] /\ results'[q] = results[q]
    BY <1>4 DEF Collect, DatabaseError, Inv3, Inv2, Inv1, Inv0, TypeOK
  <2> QED BY <1>1, <2>1, <2>2, <2>3, <2>4, AnsweredStays DEF Inv3
<1>5. CASE Crash
  <2>1. UNCHANGED <<run, acked, report>> /\ UNCHANGED <<results, stored>>
    BY <1>5 DEF Crash, loaderVars
  <2>2. \A q \in Posts : handler[q] = "closed" => handler'[q] = "closed"
    BY <1>5 DEF Crash
  <2> QED BY <1>1, <2>1, <2>2, AnsweredStays DEF Inv3
<1>6. CASE UNCHANGED vars
  <2>1. UNCHANGED <<run, acked, report>> /\ UNCHANGED <<results, stored, handler>>
    BY <1>6 DEF vars
  <2> QED BY <1>1, <2>1, AnsweredStays DEF Inv3
<1> QED BY <1>2, <1>3, <1>4, <1>5, <1>6 DEF Next, Quiescent

\* The counts that a load of the shops' data ends with are the events that this
\* run stored and did not store, whatever earlier runs left in the graph, other
\* loaders write and handlers that were given up on still do (_post_batches).
THEOREM ReportsAreTrue ==
  ASSUME \A l \in Loaders : Tool[l] = "shops"
  PROVE  Spec => []ReportIsTrue
<1>1. Spec => []Inv3
  BY InitInv3, StepInv3, PTL DEF Spec
<1>2. Inv3 => ReportIsTrue
  <2> SUFFICES ASSUME Inv3, NEW l \in Loaders, pc[l] = "loaded"
               PROVE  Answered(l) = {x \in Items : x[1][1] = l /\ x[1][2] = run[l]}
    BY DEF Inv3, ReportsSoFar, ReportIsTrue
  <2>1. acked[l] = Len(BatchesOf[l])
    BY DEF Inv3, Inv2, Inv1, Inv0, Places
  <2>2. ASSUME NEW x \in Items, x[1][1] = l  PROVE x[1][3] <= acked[l]
    <3>1. x[1] \in Posts
      BY DEF Items
    <3>2. x[1][3] \in DOMAIN BatchesOf[l]
      BY <2>2, <3>1, PostType
    <3>3. BatchesOf[l] \in Seq(Seq(Event))
      BY BatchAssumption DEF Event
    <3> QED BY <2>1, <3>2, <3>3
  <2> QED BY <2>2 DEF Answered
<1> QED BY <1>1, <1>2, PTL

=============================================================================
