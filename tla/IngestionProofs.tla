--------------------------- MODULE IngestionProofs ---------------------------
(***************************************************************************)
(* Theorems about Ingestion, for every set of calls, every assignment of   *)
(* events to calls, every seeded graph and every retry budget.             *)
(***************************************************************************)
EXTENDS Ingestion, FiniteSetTheorems, TLAPS

-----------------------------------------------------------------------------
(***************************************************************************)
(* Facts about the constants.                                              *)
(***************************************************************************)

\* A request belongs to a call, and its event is one that a producer sends.
LEMMA RequestType ==
  ASSUME NEW r \in Requests
  PROVE  r[1] \in Calls /\ Event(r) = EventOf[r[1]]
BY DEF Requests, Event

\* The node that a transaction may create for a label.
LEMMA NodeType ==
  ASSUME NEW r \in Requests, NEW l \in Labels
  PROVE  /\ Node(l, r) \in Nodes
         /\ Node(l, r).label = l
         /\ Node(l, r).key = Key(l, Event(r))
         /\ Node(l, r).by = r
<1>1. Key(l, Event(r)) \in Keys
  BY RequestType DEF Keys
<1> QED BY <1>1 DEF Node, Nodes

\* An attempt that is not the last can be followed by another.
LEMMA NotLast ==
  ASSUME NEW k \in 0..MaxRetries, k # MaxRetries
  PROVE  k < MaxRetries /\ k + 1 \in 0..MaxRetries
<1>1. MaxRetries \in Nat
  BY IngestionAssumption
<1> QED BY <1>1

\* The seeded nodes are nodes, and no request made them.
LEMMA SeedNodeType ==
  ASSUME NEW s \in Seeded
  PROVE  SeedNode(s) \in Nodes /\ SeedNode(s).by = Seed
BY IngestionAssumption DEF SeedNode, Nodes

\* The current attempt of a call is one of its requests.
LEMMA CurrentType ==
  ASSUME NEW c \in Calls, attempt \in [Calls -> 0..MaxRetries]
  PROVE  Current(c) \in Requests /\ Current(c)[1] = c
BY DEF Current, Requests

-----------------------------------------------------------------------------
(***************************************************************************)
(* Type correctness.                                                       *)
(***************************************************************************)

\* An edge is made of one bound node per label.
LEMMA EdgeType ==
  ASSUME TypeOK, NEW r \in Requests, \A l \in Labels : bound[r][l] # {}
  PROVE  /\ EdgeOf(r) \in Edges
         /\ EdgeOf(r).by = r
         /\ \A l \in Labels : EdgeOf(r).ends[l] \in bound[r][l]
         /\ Touched(r) \subseteq Nodes
<1>1. ASSUME NEW l \in Labels
      PROVE  (CHOOSE n \in bound[r][l] : TRUE) \in bound[r][l]
  BY DEF Labels
<1>2. ASSUME NEW l \in Labels PROVE bound[r][l] \subseteq Nodes
  BY DEF TypeOK
<1> QED BY <1>1, <1>2 DEF EdgeOf, Edges, Touched

\* What a transaction has bound before it creates the edge.
Filled ==
  \A r \in Requests :
    /\ request[r] \in {"Application", "BusinessObject", "Create", "Commit"}
         => bound[r]["User"] # {}
    /\ request[r] \in {"BusinessObject", "Create", "Commit"}
         => bound[r]["Application"] # {}
    /\ request[r] \in {"Create", "Commit"} => bound[r]["BusinessObject"] # {}
    /\ \A l \in Labels : bound[r][l] # {} => IsOpen(r) /\ bound[r]["User"] # {}

\* Attempts that are still to come have sent nothing, and a call that sleeps
\* has one to come.
Ahead ==
  \A c \in Calls :
    /\ call[c] = "backoff" => attempt[c] < MaxRetries
    /\ \A k \in 0..MaxRetries :
         k > attempt[c] \/ call[c] = "idle" => request[<<c, k>>] = "unsent"

\* The three are inductive together: a commit needs Filled for its type, and
\* a new attempt needs Ahead to start with nothing bound.
Inv0 == TypeOK /\ Filled /\ Ahead

LEMMA InitInv0 == Init => Inv0
<1> SUFFICES ASSUME Init PROVE Inv0
  OBVIOUS
<1>1. nodes \subseteq Nodes /\ lastSeen \in [nodes -> Nat]
  BY SeedNodeType DEF Init
<1>2. TypeOK
  BY <1>1, IngestionAssumption DEF Init, TypeOK, CallStates, Phases, NoRows
<1>3. Filled
  BY DEF Init, Filled, NoRows
<1>4. Ahead
  BY DEF Init, Ahead, Requests
<1> QED BY <1>2, <1>3, <1>4 DEF Inv0

\* A step of the SDK alone.
LEMMA ClientInv0 ==
  ASSUME Inv0, NEW c \in Calls,
         Emit(c) \/ Retry(c) \/ TransportError(c) \/ Respond(c)
  PROVE  Inv0'
<1> USE DEF Inv0
<1>1. CASE Emit(c)
  <2>1. Current(c) \in Requests /\ request[Current(c)] = "unsent"
    BY <1>1, CurrentType DEF TypeOK, Emit, Ahead, Current
  <2>2. TypeOK'
    BY <1>1, <2>1 DEF Emit, TypeOK, CallStates, Phases, graphVars
  <2>3. Filled'
    BY <1>1, <2>1 DEF Emit, TypeOK, Filled, IsOpen, OpenPhases, Labels
  <2>4. ASSUME NEW d \in Calls, NEW k \in 0..MaxRetries, <<d, k>> # Current(c)
        PROVE  request'[<<d, k>>] = request[<<d, k>>]
    BY <1>1, <2>1, <2>4 DEF Emit, TypeOK, Requests
  <2>5. Ahead'
    <3>1. ASSUME NEW d \in Calls, call'[d] = "backoff" PROVE attempt'[d] < MaxRetries
      BY <1>1, <3>1 DEF Emit, TypeOK, Ahead
    <3>2. ASSUME NEW d \in Calls, NEW k \in 0..MaxRetries,
                 k > attempt'[d] \/ call'[d] = "idle"
          PROVE  request'[<<d, k>>] = "unsent"
      <4>1. (k > attempt[d] \/ call[d] = "idle") /\ <<d, k>> # Current(c)
        BY <1>1, <3>2 DEF Emit, TypeOK, Current
      <4> QED BY <4>1, <2>4 DEF Ahead
    <3> QED BY <3>1, <3>2 DEF Ahead
  <2> QED BY <2>2, <2>3, <2>5
<1>2. CASE Retry(c)
  <2> DEFINE r == <<c, attempt[c] + 1>>
  <2>1. r \in Requests /\ request[r] = "unsent" /\ attempt[c] + 1 \in 0..MaxRetries
    BY <1>2, IngestionAssumption DEF TypeOK, Retry, Ahead, Requests
  <2>2. TypeOK'
    BY <1>2, <2>1 DEF Retry, TypeOK, CallStates, Phases, graphVars
  <2>3. Filled'
    BY <1>2, <2>1 DEF Retry, TypeOK, Filled, IsOpen, OpenPhases, Labels
  <2>4. ASSUME NEW d \in Calls, NEW k \in 0..MaxRetries, <<d, k>> # r
        PROVE  request'[<<d, k>>] = request[<<d, k>>]
    BY <1>2, <2>1, <2>4 DEF Retry, TypeOK, Requests
  <2>5. Ahead'
    <3>1. ASSUME NEW d \in Calls, call'[d] = "backoff" PROVE attempt'[d] < MaxRetries
      BY <1>2, <3>1 DEF Retry, TypeOK, Ahead
    <3>2. ASSUME NEW d \in Calls, NEW k \in 0..MaxRetries,
                 k > attempt'[d] \/ call'[d] = "idle"
          PROVE  request'[<<d, k>>] = "unsent"
      <4>1. (k > attempt[d] \/ call[d] = "idle") /\ <<d, k>> # r
        BY <1>2, <3>2, IngestionAssumption DEF Retry, TypeOK
      <4> QED BY <4>1, <2>4 DEF Ahead
    <3> QED BY <3>1, <3>2 DEF Ahead
  <2> QED BY <2>2, <2>3, <2>5
<1>3. CASE TransportError(c)
  <2>1. TypeOK'
    BY <1>3 DEF TransportError, TypeOK, AfterFailure, CallStates, Finished, graphVars
  <2>2. Filled'
    BY <1>3 DEF TransportError, Filled, IsOpen
  <2>3. Ahead'
    <3>1. call' = [call EXCEPT ![c] = AfterFailure(c)] /\ UNCHANGED <<attempt, request>>
      BY <1>3 DEF TransportError
    <3>2. AfterFailure(c) = "backoff" => attempt[c] < MaxRetries
      <4>1. attempt[c] \in 0..MaxRetries
        BY DEF TypeOK
      <4> QED BY <4>1, NotLast DEF AfterFailure
    <3>3. AfterFailure(c) # "idle"
      BY DEF AfterFailure
    <3> QED BY <1>3, <3>1, <3>2, <3>3 DEF TransportError, TypeOK, Ahead
  <2> QED BY <2>1, <2>2, <2>3
<1>4. CASE Respond(c)
  <2>1. Current(c) \in Requests
    BY CurrentType DEF TypeOK
  <2>2. OnResponse(c, request[Current(c)]) \in CallStates
    BY <1>4 DEF Respond, Replies, OnResponse, AfterFailure, CallStates, Finished
  <2>3. TypeOK'
    BY <1>4, <2>1, <2>2 DEF Respond, TypeOK, Phases, graphVars
  <2>4. Filled'
    BY <1>4, <2>1 DEF Respond, TypeOK, Filled, IsOpen, OpenPhases, Replies, Labels
  <2>5. ASSUME OnResponse(c, request[Current(c)]) = "backoff"
        PROVE  attempt[c] < MaxRetries
    <3>1. request[Current(c)] = "503"
      BY <1>4, <2>5 DEF Respond, Replies, OnResponse
    <3>2. AfterFailure(c) = "backoff"
      BY <2>5, <3>1 DEF OnResponse
    <3>3. attempt[c] # MaxRetries
      BY <3>2 DEF AfterFailure
    <3>4. attempt[c] \in 0..MaxRetries
      BY DEF TypeOK
    <3> QED BY <3>3, <3>4, NotLast
  <2>6. OnResponse(c, request[Current(c)]) # "idle"
    BY <1>4 DEF Respond, Replies, OnResponse, AfterFailure
  <2>7. Ahead'
    <3>1. request[Current(c)] # "unsent"
      BY <1>4 DEF Respond, Replies
    <3>2. ASSUME NEW d \in Calls, NEW k \in 0..MaxRetries, <<d, k>> # Current(c)
          PROVE  request'[<<d, k>>] = request[<<d, k>>]
      BY <1>4, <2>1, <3>2 DEF Respond, TypeOK, Requests
    <3>3. call' = [call EXCEPT ![c] = OnResponse(c, request[Current(c)])]
          /\ attempt' = attempt
      BY <1>4 DEF Respond
    <3>4. ASSUME NEW d \in Calls, call'[d] = "backoff" PROVE attempt'[d] < MaxRetries
      BY <2>5, <3>3, <3>4 DEF TypeOK, Ahead
    <3>5. ASSUME NEW d \in Calls, NEW k \in 0..MaxRetries,
                 k > attempt'[d] \/ call'[d] = "idle"
          PROVE  request'[<<d, k>>] = "unsent"
      <4>1. k > attempt[d] \/ call[d] = "idle"
        BY <2>6, <3>3, <3>5 DEF TypeOK
      <4>2. request[<<d, k>>] = "unsent"
        BY <4>1 DEF Ahead
      <4> QED BY <3>1, <3>2, <4>2
    <3> QED BY <3>4, <3>5 DEF Ahead
  <2> QED BY <2>3, <2>4, <2>7
<1> QED BY <1>1, <1>2, <1>3, <1>4

\* Only the SDK sends a request for the first time.
LEMMA AheadStays ==
  ASSUME Ahead, UNCHANGED clientVars,
         \A s \in Requests : request[s] = "unsent" => request'[s] = "unsent"
  PROVE  Ahead'
BY DEF Ahead, clientVars, Requests

\* A step that moves one request on without touching what is bound.
LEMMA RequestInv0 ==
  ASSUME Inv0, NEW r \in Requests,
         \/ Lose(r) \/ Receive(r) \/ Throttle(r)
         \/ CreatePerformed(r) \/ Acknowledge(r)
  PROVE  Inv0'
<1> USE DEF Inv0
<1> USE DEF Lose, Receive, Throttle, CreatePerformed, Acknowledge,
            clientVars, graphVars
<1>1. TypeOK'
  BY DEF TypeOK, Phases, OpenPhases, Labels, Replies
<1>2. Filled'
  BY DEF TypeOK, Filled, IsOpen, OpenPhases, Labels, Replies
<1>3. Ahead'
  <2>1. request[r] # "unsent" /\ \E p : request' = [request EXCEPT ![r] = p]
    BY DEF Replies
  <2> QED BY <2>1, AheadStays DEF TypeOK
<1> QED BY <1>1, <1>2, <1>3

LEMMA MergeInv0 ==
  ASSUME Inv0, NEW r \in Requests, NEW l \in Labels, Merge(l, r)
  PROVE  Inv0'
<1> USE DEF Inv0
<1> DEFINE rows == IF Matches(l, r) = {} THEN {Node(l, r)} ELSE Matches(l, r)
<1>1. rows \in SUBSET Nodes /\ rows # {}
  BY NodeType DEF Matches, TypeOK
<1>2. /\ request[r] = l
      /\ bound' = [bound EXCEPT ![r][l] = rows]
      /\ request' = [request EXCEPT ![r] = NextPhase(l)]
      /\ UNCHANGED <<clientVars, graphVars, ingested, crashes>>
  BY DEF Merge
<1> HIDE DEF rows
<1>3. TypeOK'
  BY <1>1, <1>2 DEF TypeOK, Phases, OpenPhases, Labels, NextPhase, clientVars, graphVars
<1>4. Filled'
  BY <1>1, <1>2 DEF TypeOK, Filled, IsOpen, OpenPhases, Labels, NextPhase
<1>5. Ahead'
  BY <1>2 DEF TypeOK, Ahead, Requests, Labels, clientVars
<1> QED BY <1>3, <1>4, <1>5

\* A step that ends one transaction.
LEMMA LeaveInv0 ==
  ASSUME Inv0, NEW r \in Requests,
         RejectDuplicate(r) \/ DatabaseError(r) \/ Commit(r)
  PROVE  Inv0'
<1> USE DEF Inv0
<1>1. CASE RejectDuplicate(r) \/ DatabaseError(r)
  <2> USE <1>1 DEF RejectDuplicate, DatabaseError, Leave, clientVars, graphVars
  <2>1. TypeOK'
    BY DEF TypeOK, Phases, Replies, NoRows
  <2>2. Filled'
    BY DEF TypeOK, Filled, IsOpen, OpenPhases, Labels, NoRows
  <2>3. Ahead'
    BY DEF TypeOK, Ahead, Requests, IsOpen, OpenPhases, Labels
  <2> QED BY <2>1, <2>2, <2>3
<1>2. CASE Commit(r)
  <2> USE <1>2 DEF Commit, Leave, clientVars
  <2>1. \A l \in Labels : bound[r][l] # {}
    BY DEF Filled, Labels
  <2>2. EdgeOf(r) \in Edges /\ Touched(r) \subseteq Nodes
    BY <2>1, EdgeType
  <2>3. \A n \in nodes' : Seen(n, r) \in Nat
    BY IngestionAssumption, RequestType DEF TypeOK, Seen
  <2>4. TypeOK'
    BY <2>2, <2>3 DEF TypeOK, Phases, NoRows
  <2>5. Filled'
    BY DEF TypeOK, Filled, IsOpen, OpenPhases, Labels, NoRows
  <2>6. Ahead'
    BY DEF TypeOK, Ahead, Requests
  <2> QED BY <2>4, <2>5, <2>6
<1> QED BY <1>1, <1>2

LEMMA CrashInv0 == ASSUME Inv0, Crash PROVE Inv0'
<1> USE DEF Inv0, Crash, clientVars, graphVars
<1>1. TypeOK'
  BY IngestionAssumption DEF TypeOK, Phases, NoRows
<1>2. Filled'
  BY DEF TypeOK, Filled, IsOpen, OpenPhases, Labels, NoRows
<1>3. Ahead'
  BY AheadStays DEF TypeOK, IsOpen, OpenPhases, Labels
<1> QED BY <1>1, <1>2, <1>3

LEMMA StepInv0 == Inv0 /\ [Next]_vars => Inv0'
<1> SUFFICES ASSUME Inv0, [Next]_vars PROVE Inv0'
  OBVIOUS
<1>1. ASSUME NEW c \in Calls,
             Emit(c) \/ Retry(c) \/ TransportError(c) \/ Respond(c)
      PROVE  Inv0'
  BY <1>1, ClientInv0
<1>2. ASSUME NEW r \in Requests,
             \/ Lose(r) \/ Receive(r) \/ Throttle(r)
             \/ CreatePerformed(r) \/ Acknowledge(r)
      PROVE  Inv0'
  BY <1>2, RequestInv0
<1>3. ASSUME NEW r \in Requests, NEW l \in Labels, Merge(l, r) PROVE Inv0'
  BY <1>3, MergeInv0
<1>4. ASSUME NEW r \in Requests,
             RejectDuplicate(r) \/ DatabaseError(r) \/ Commit(r)
      PROVE  Inv0'
  BY <1>4, LeaveInv0
<1>5. CASE Crash
  BY <1>5, CrashInv0
<1>6. CASE UNCHANGED vars
  BY <1>6 DEF Inv0, vars, TypeOK, Filled, Ahead, IsOpen
<1> QED
  BY <1>1, <1>2, <1>3, <1>4, <1>5, <1>6 DEF Next, Server, Quiescent

\* Every variable keeps its type: in particular no retry runs past the budget
\* and no transaction commits without its three nodes.
THEOREM TypeCorrect == Spec => []TypeOK
<1>1. Spec => []Inv0
  BY InitInv0, StepInv0, PTL DEF Spec
<1>2. Inv0 => TypeOK
  BY DEF Inv0
<1> QED BY <1>1, <1>2, PTL

-----------------------------------------------------------------------------
(***************************************************************************)
(* Safety that needs no hypothesis about the events.                       *)
(***************************************************************************)

\* What a transaction has bound for a label is committed, or is the node it
\* will create, and has the label and the key it asked for.
Rows ==
  \A r \in Requests : \A l \in Labels : \A n \in bound[r][l] :
    n.label = l /\ n.key = Key(l, Event(r)) /\ (n \in nodes \/ n = Node(l, r))

\* A request that has an edge has left its transaction for good.
Past == {"committed", "closed"} \union Replies

EdgesArePast == \A p \in performed : request[p.by] \in Past

\* The handler answers 201 after its commit only.
AnsweredIsStored ==
  \A r \in Requests :
    request[r] \in {"committed", "201"} => \E p \in performed : p.by = r

\* The transaction that is about to commit is alone with its eventId.
CommitIsAlone ==
  \A r \in Requests :
    request[r] = "Commit" => ~IdTaken(r) /\ ~IdReserved(r) /\ SingleRow(r)

\* The inductive strengthening of the unconditional safety properties.
Inv1 ==
  /\ Rows /\ EdgesArePast /\ AnsweredIsStored /\ CommitIsAlone
  /\ AcknowledgedIsStored /\ EventIdUnique /\ NoOrphanNodes /\ LocksExclusive

LEMMA InitInv1 == Init => Inv1
<1> SUFFICES ASSUME Init PROVE Inv1
  OBVIOUS
<1>1. Rows
  BY DEF Init, Rows, NoRows
<1>2. EdgesArePast /\ AnsweredIsStored /\ CommitIsAlone
  BY DEF Init, EdgesArePast, AnsweredIsStored, CommitIsAlone
<1>3. AcknowledgedIsStored /\ EventIdUnique
  BY DEF Init, AcknowledgedIsStored, EventIdUnique
<1>4. NoOrphanNodes
  BY SeedNodeType DEF Init, NoOrphanNodes
<1>5. LocksExclusive
  BY DEF Init, LocksExclusive, IsOpen, OpenPhases, Labels
<1> QED BY <1>1, <1>2, <1>3, <1>4, <1>5 DEF Inv1

\* A step that opens no transaction, commits nothing and binds nothing new
\* keeps everything but what it tells the caller.
LEMMA QuietInv1 ==
  ASSUME Inv0, Inv1, UNCHANGED graphVars, AcknowledgedIsStored',
         \A s \in Requests :
           /\ bound'[s] = bound[s] \/ bound'[s] = NoRows
           /\ IsOpen(s)' => \/ IsOpen(s) /\ bound'[s] = bound[s]
                            \/ request[s] = "transit" /\ request'[s] = "User"
           /\ request'[s] = "Commit" => request[s] = "Commit"
           /\ request'[s] \in {"committed", "201"}
                => request[s] \in {"committed", "201"}
           /\ request[s] \in Past => request'[s] \in Past
  PROVE  Inv1'
<1> USE DEF Inv1
<1>1. Rows'
  BY DEF Rows, graphVars, NoRows
<1>2. EdgesArePast'
  BY DEF EdgesArePast, graphVars, Inv0, TypeOK, Edges
<1>3. AnsweredIsStored'
  BY DEF AnsweredIsStored, graphVars
<1>4. CommitIsAlone'
  BY DEF CommitIsAlone, IdTaken, IdReserved, SingleRow, graphVars, IsOpen, OpenPhases
<1>5. EventIdUnique' /\ NoOrphanNodes'
  BY DEF EventIdUnique, NoOrphanNodes, graphVars
<1>6. LocksExclusive'
  <2>1. ASSUME NEW s \in Requests, NEW l \in Labels, IsOpen(s)'
        PROVE  (IsOpen(s) /\ Locked(l, s)' = Locked(l, s)) \/ Locked(l, s)' = {}
    <3>1. CASE IsOpen(s) /\ bound'[s] = bound[s]
      BY <3>1 DEF Locked
    <3>2. CASE request[s] = "transit"
      <4>1. bound[s][l] = {}
        BY <3>2 DEF Inv0, Filled, IsOpen, OpenPhases, Labels
      <4>2. bound'[s][l] = {}
        BY <4>1 DEF NoRows
      <4> QED BY <4>2 DEF Locked
    <3> QED BY <2>1, <3>1, <3>2
  <2> QED BY <2>1 DEF LocksExclusive
<1> QED BY <1>1, <1>2, <1>3, <1>4, <1>5, <1>6

LEMMA ClientInv1 ==
  ASSUME Inv0, Inv0', Inv1, NEW c \in Calls,
         Emit(c) \/ Retry(c) \/ TransportError(c) \/ Respond(c)
  PROVE  Inv1'
<1>1. UNCHANGED graphVars /\ UNCHANGED bound
  BY DEF Emit, Retry, TransportError, Respond
<1>2. \A s \in Requests :
        \/ request'[s] = request[s]
        \/ request[s] = "unsent" /\ request'[s] = "transit"
        \/ request[s] \in Replies /\ request'[s] = "closed"
  <2>1. CASE Emit(c)
    <3>1. request[Current(c)] = "unsent"
      BY <2>1, CurrentType DEF Inv0, TypeOK, Emit, Ahead, Current
    <3> QED BY <2>1, <3>1, CurrentType DEF Emit, Inv0, TypeOK
  <2>2. CASE Retry(c)
    <3>1. attempt[c] \in 0..MaxRetries /\ attempt[c] # MaxRetries
      BY <2>2, IngestionAssumption DEF Inv0, TypeOK, Ahead, Retry
    <3>2. attempt[c] + 1 \in 0..MaxRetries /\ attempt[c] + 1 > attempt[c]
      BY <3>1, NotLast
    <3>3. request[<<c, attempt[c] + 1>>] = "unsent"
      BY <3>2 DEF Inv0, Ahead
    <3> QED BY <2>2, <3>2, <3>3 DEF Retry, Inv0, TypeOK
  <2>3. CASE TransportError(c)
    BY <2>3 DEF TransportError
  <2>4. CASE Respond(c)
    BY <2>4, CurrentType DEF Respond, Inv0, TypeOK
  <2> QED BY <2>1, <2>2, <2>3, <2>4
<1>3. AcknowledgedIsStored'
  <2>1. ASSUME NEW d \in Calls, call'[d] = "accepted", call[d] # "accepted"
        PROVE  StoredBy(d)
    <3>1. Respond(c) /\ d = c
      BY <2>1 DEF Emit, Retry, TransportError, Respond, AfterFailure, Inv0, TypeOK
    <3>2. OnResponse(c, request[Current(c)]) = "accepted"
      BY <2>1, <3>1 DEF Respond, Inv0, TypeOK
    <3>3. request[Current(c)] = "201"
      BY <3>1, <3>2 DEF Respond, OnResponse, AfterFailure, Replies
    <3>4. Current(c) \in Requests /\ Current(c)[1] = c
      BY CurrentType DEF Inv0, TypeOK
    <3>5. PICK p \in performed : p.by = Current(c)
      BY <3>3, <3>4 DEF Inv1, AnsweredIsStored
    <3> QED BY <3>1, <3>4, <3>5 DEF StoredBy
  <2> QED BY <1>1, <2>1 DEF Inv1, AcknowledgedIsStored, StoredBy, graphVars
<1>4. ASSUME NEW s \in Requests
      PROVE  /\ IsOpen(s)' => IsOpen(s)
             /\ request'[s] = "Commit" => request[s] = "Commit"
             /\ request'[s] \in {"committed", "201"}
                  => request[s] \in {"committed", "201"}
             /\ request[s] \in Past => request'[s] \in Past
  BY <1>2 DEF IsOpen, OpenPhases, Replies, Past, Labels
<1> QED BY <1>1, <1>3, <1>4, QuietInv1

LEMMA RequestInv1 ==
  ASSUME Inv0, Inv1, NEW r \in Requests,
         \/ Lose(r) \/ Receive(r) \/ Throttle(r)
         \/ RejectDuplicate(r) \/ DatabaseError(r) \/ Acknowledge(r)
  PROVE  Inv1'
<1>1. UNCHANGED graphVars /\ UNCHANGED clientVars
  BY DEF Lose, Receive, Throttle, RejectDuplicate, DatabaseError, Acknowledge
<1>2. AcknowledgedIsStored'
  BY <1>1 DEF Inv1, AcknowledgedIsStored, StoredBy, graphVars, clientVars
<1>3. ASSUME NEW s \in Requests
      PROVE  \/ request'[s] = request[s] /\ bound'[s] = bound[s]
             \/ request[s] = "transit" /\ request'[s] = "User" /\ bound'[s] = bound[s]
             \/ request[s] = "committed" /\ request'[s] = "201" /\ bound'[s] = bound[s]
             \/ /\ request'[s] \in {"closed", "400", "409", "429", "503"}
                /\ bound'[s] = bound[s] \/ bound'[s] = NoRows
  <2>1. CASE Lose(r)
    BY <2>1 DEF Lose, Inv0, TypeOK
  <2>2. CASE Receive(r)
    BY <2>2 DEF Receive, Inv0, TypeOK
  <2>3. CASE Throttle(r)
    BY <2>3 DEF Throttle, Inv0, TypeOK
  <2>4. CASE RejectDuplicate(r) \/ DatabaseError(r)
    BY <2>4 DEF RejectDuplicate, DatabaseError, Leave, Inv0, TypeOK
  <2>5. CASE Acknowledge(r)
    BY <2>5 DEF Acknowledge, Inv0, TypeOK
  <2> QED BY <2>1, <2>2, <2>3, <2>4, <2>5
<1>4. ASSUME NEW s \in Requests
      PROVE  /\ bound'[s] = bound[s] \/ bound'[s] = NoRows
             /\ IsOpen(s)' => \/ IsOpen(s) /\ bound'[s] = bound[s]
                              \/ request[s] = "transit" /\ request'[s] = "User"
             /\ request'[s] = "Commit" => request[s] = "Commit"
             /\ request'[s] \in {"committed", "201"}
                  => request[s] \in {"committed", "201"}
             /\ request[s] \in Past => request'[s] \in Past
  BY <1>3 DEF IsOpen, OpenPhases, Replies, Past, Labels
<1> QED BY <1>1, <1>2, <1>4, QuietInv1

LEMMA CrashInv1 == ASSUME Inv0, Inv1, Crash PROVE Inv1'
<1>1. UNCHANGED graphVars /\ UNCHANGED clientVars
  BY DEF Crash
<1>2. AcknowledgedIsStored'
  BY <1>1 DEF Inv1, AcknowledgedIsStored, StoredBy, graphVars, clientVars
<1>3. ASSUME NEW s \in Requests
      PROVE  \/ request'[s] = request[s] /\ bound'[s] = bound[s]
             \/ request'[s] = "closed" /\ bound'[s] = NoRows
  BY DEF Crash
<1>4. ASSUME NEW s \in Requests
      PROVE  /\ bound'[s] = bound[s] \/ bound'[s] = NoRows
             /\ IsOpen(s)' => IsOpen(s) /\ bound'[s] = bound[s]
             /\ request'[s] = "Commit" => request[s] = "Commit"
             /\ request'[s] \in {"committed", "201"}
                  => request[s] \in {"committed", "201"}
             /\ request[s] \in Past => request'[s] \in Past
  BY <1>3 DEF IsOpen, OpenPhases, Replies, Past, Labels
<1> QED BY <1>1, <1>2, <1>4, QuietInv1

\* An open transaction's node is not committed.
LEMMA OwnNodeIsNew ==
  ASSUME Inv0, Inv1, NEW r \in Requests, NEW l \in Labels, IsOpen(r)
  PROVE  Node(l, r) \notin nodes
<1>1. ASSUME Node(l, r) \in nodes PROVE FALSE
  <2>1. PICK p \in performed : p.by = r
    BY <1>1, NodeType, IngestionAssumption DEF Inv1, NoOrphanNodes
  <2> QED
    BY <2>1 DEF Inv1, EdgesArePast, IsOpen, OpenPhases, Past, Labels, Replies
<1> QED BY <1>1

LEMMA MergeInv1 ==
  ASSUME Inv0, Inv1, NEW r \in Requests, NEW l \in Labels, Merge(l, r)
  PROVE  Inv1'
<1> DEFINE rows == IF Matches(l, r) = {} THEN {Node(l, r)} ELSE Matches(l, r)
<1>1. /\ request[r] = l
      /\ bound' = [bound EXCEPT ![r][l] = rows]
      /\ request' = [request EXCEPT ![r] = NextPhase(l)]
      /\ UNCHANGED clientVars /\ UNCHANGED graphVars
      /\ \A s \in Requests : s # r /\ IsOpen(s) => Locked(l, s) \intersect Matches(l, r) = {}
  BY DEF Merge
<1>2. \A n \in rows : /\ n.label = l /\ n.key = Key(l, Event(r))
                      /\ n \in nodes \/ n = Node(l, r)
  BY NodeType DEF Matches
<1>3. IsOpen(r) /\ IsOpen(r)' /\ request'[r] # "Commit" /\ request'[r] \notin Past
  BY <1>1 DEF IsOpen, OpenPhases, NextPhase, Labels, Inv0, TypeOK, Past, Replies
<1>4. ASSUME NEW s \in Requests, s # r
      PROVE  request'[s] = request[s] /\ bound'[s] = bound[s]
  BY <1>1, <1>4 DEF Inv0, TypeOK
<1>5. ASSUME NEW m \in Labels
      PROVE  bound'[r][m] = IF m = l THEN rows ELSE bound[r][m]
  BY <1>1 DEF Inv0, TypeOK
<1> HIDE DEF rows
<1> USE DEF Inv1
<1>6. Rows'
  BY <1>1, <1>2, <1>4, <1>5 DEF Rows, graphVars
<1>7. EdgesArePast'
  <2>1. ASSUME NEW p \in performed PROVE request'[p.by] \in Past
    <3>1. p.by \in Requests /\ p.by # r
      BY <1>3 DEF EdgesArePast, Inv0, TypeOK, Edges, IsOpen, OpenPhases, Past, Labels, Replies
    <3> QED BY <3>1, <1>4 DEF EdgesArePast
  <2> QED BY <1>1, <2>1 DEF EdgesArePast, graphVars
<1>8. AnsweredIsStored' /\ AcknowledgedIsStored'
  BY <1>1, <1>3, <1>4
     DEF AnsweredIsStored, AcknowledgedIsStored, StoredBy, graphVars, clientVars, Past, Replies
<1>9. CommitIsAlone'
  <2>1. ASSUME NEW s \in Requests, request'[s] = "Commit"
        PROVE  ~IdTaken(s)' /\ ~IdReserved(s)' /\ SingleRow(s)'
    <3>1. s # r /\ request[s] = "Commit"
      BY <1>3, <1>4, <2>1
    <3>2. ~IdTaken(s) /\ ~IdReserved(s) /\ SingleRow(s)
      BY <3>1 DEF CommitIsAlone
    <3>3. ~IdTaken(s)'
      BY <3>2, <1>1 DEF IdTaken, graphVars
    <3>4. ~IdReserved(s)'
      BY <3>2, <1>3, <1>4 DEF IdReserved
    <3>5. SingleRow(s)'
      BY <3>1, <3>2, <1>4 DEF SingleRow
    <3> QED BY <3>3, <3>4, <3>5
  <2> QED BY <2>1 DEF CommitIsAlone
<1>10. EventIdUnique' /\ NoOrphanNodes'
  BY <1>1 DEF EventIdUnique, NoOrphanNodes, graphVars
<1>11. LocksExclusive'
  <2>1. ASSUME NEW s \in Requests, s # r, IsOpen(s)
        PROVE  Locked(l, s) \intersect rows = {}
    <3>1. CASE rows = Matches(l, r)
      BY <1>1, <2>1, <3>1
    <3>2. CASE rows = {Node(l, r)}
      <4>1. Node(l, r) # Node(l, s)
        BY <2>1, NodeType
      <4>2. Node(l, r) \notin nodes
        BY <1>3, OwnNodeIsNew
      <4> QED BY <3>2, <4>1, <4>2 DEF Rows, Locked
    <3> QED BY <3>1, <3>2 DEF rows
  <2>2. ASSUME NEW s \in Requests, s # r, IsOpen(s)', NEW m \in Labels
        PROVE  Locked(m, s)' \intersect Locked(m, r)' = {}
    <3>1. IsOpen(s) /\ Locked(m, s)' = Locked(m, s)
      BY <1>4, <2>2 DEF IsOpen, Locked
    <3>2. Locked(m, s) \intersect Locked(m, r) = {}
      BY <1>3, <2>2, <3>1 DEF LocksExclusive
    <3>3. CASE m = l
      BY <3>1, <3>3, <2>1, <2>2, <1>5 DEF Locked
    <3>4. CASE m # l
      BY <3>1, <3>2, <3>4, <1>5 DEF Locked
    <3> QED BY <3>3, <3>4
  <2>3. ASSUME NEW s \in Requests, NEW t \in Requests, NEW m \in Labels,
               s # t, s # r, t # r, IsOpen(s)', IsOpen(t)'
        PROVE  Locked(m, s)' \intersect Locked(m, t)' = {}
    BY <1>4, <2>3 DEF LocksExclusive, Locked, IsOpen
  <2> QED BY <2>2, <2>3 DEF LocksExclusive
<1> QED BY <1>6, <1>7, <1>8, <1>9, <1>10, <1>11

LEMMA CreateInv1 ==
  ASSUME Inv0, Inv1, NEW r \in Requests, CreatePerformed(r)
  PROVE  Inv1'
<1>1. /\ request[r] = "Create" /\ ~IdReserved(r) /\ ~ViolatesConstraint(r)
      /\ request' = [request EXCEPT ![r] = "Commit"]
      /\ UNCHANGED clientVars /\ UNCHANGED bound /\ UNCHANGED graphVars
  BY DEF CreatePerformed
<1>2. request'[r] = "Commit" /\ \A s \in Requests : s # r => request'[s] = request[s]
  BY <1>1 DEF Inv0, TypeOK
<1> USE DEF Inv1
<1>3. Rows' /\ EventIdUnique' /\ NoOrphanNodes'
  BY <1>1 DEF Rows, EventIdUnique, NoOrphanNodes, graphVars
<1>4. EdgesArePast'
  <2>1. ASSUME NEW p \in performed PROVE p.by \in Requests /\ p.by # r
    BY <1>1 DEF EdgesArePast, Inv0, TypeOK, Edges, Past, Replies
  <2> QED BY <1>1, <1>2, <2>1 DEF EdgesArePast, graphVars
<1>5. AnsweredIsStored' /\ AcknowledgedIsStored'
  BY <1>1, <1>2 DEF AnsweredIsStored, AcknowledgedIsStored, StoredBy, graphVars, clientVars
<1>6. CommitIsAlone'
  <2>1. \A s \in Requests : IdTaken(s)' = IdTaken(s) /\ SingleRow(s)' = SingleRow(s)
    BY <1>1 DEF IdTaken, SingleRow, graphVars
  <2>2. ~IdTaken(r) /\ SingleRow(r) /\ ~IdReserved(r)'
    BY <1>1, <1>2 DEF ViolatesConstraint, IdReserved
  <2>3. ASSUME NEW s \in Requests, s # r, request[s] = "Commit"
        PROVE  ~IdTaken(s) /\ SingleRow(s) /\ ~IdReserved(s)'
    <3>1. Event(s).eventId # Event(r).eventId
      BY <1>1, <2>3 DEF IdReserved
    <3> QED BY <1>2, <2>3, <3>1 DEF CommitIsAlone, IdReserved
  <2> QED BY <1>2, <2>1, <2>2, <2>3 DEF CommitIsAlone
<1>7. LocksExclusive'
  BY <1>1, <1>2 DEF LocksExclusive, Locked, IsOpen, OpenPhases
<1> QED BY <1>3, <1>4, <1>5, <1>6, <1>7

\* What a commit adds: one edge, whose ends are the bound nodes.
LEMMA CommitFacts ==
  ASSUME Inv0, Inv1, NEW r \in Requests, Commit(r)
  PROVE  /\ request[r] = "Commit" /\ request'[r] = "committed"
         /\ \A s \in Requests : s # r => request'[s] = request[s] /\ bound'[s] = bound[s]
         /\ bound'[r] = NoRows
         /\ performed' = performed \union {EdgeOf(r)}
         /\ nodes' = nodes \union Touched(r)
         /\ UNCHANGED clientVars
         /\ EdgeOf(r) \in Edges /\ EdgeOf(r).by = r
         /\ \A l \in Labels : EdgeOf(r).ends[l] \in bound[r][l]
         /\ ~IdTaken(r) /\ ~IdReserved(r) /\ SingleRow(r)
<1>1. \A l \in Labels : bound[r][l] # {}
  BY DEF Commit, Inv0, Filled, Labels
<1> QED BY <1>1, EdgeType DEF Commit, Leave, Inv0, Inv1, TypeOK, CommitIsAlone

LEMMA CommitInv1 ==
  ASSUME Inv0, Inv1, NEW r \in Requests, Commit(r)
  PROVE  Inv1'
<1> USE CommitFacts DEF Inv1
<1>1. Rows'
  BY DEF Rows, NoRows
<1>2. EdgesArePast'
  <2>1. ASSUME NEW p \in performed PROVE p.by \in Requests /\ p.by # r
    BY DEF EdgesArePast, Inv0, TypeOK, Edges, Past, Replies
  <2> QED BY <2>1 DEF EdgesArePast, Past
<1>3. AnsweredIsStored'
  BY DEF AnsweredIsStored
<1>4. AcknowledgedIsStored'
  BY DEF AcknowledgedIsStored, StoredBy, clientVars
<1>5. CommitIsAlone'
  <2>1. ASSUME NEW s \in Requests, s # r, request[s] = "Commit"
        PROVE  ~IdTaken(s)' /\ ~IdReserved(s)' /\ SingleRow(s)'
    <3>1. ~IdTaken(s) /\ ~IdReserved(s) /\ SingleRow(s)
      BY <2>1 DEF CommitIsAlone
    <3>2. Event(r).eventId # Event(s).eventId
      BY <2>1, <3>1 DEF IdReserved
    <3>3. ~IdTaken(s)'
      BY <3>1, <3>2 DEF IdTaken
    <3>4. ~IdReserved(s)' /\ SingleRow(s)'
      BY <2>1, <3>1 DEF IdReserved, SingleRow
    <3> QED BY <3>3, <3>4
  <2> QED BY <2>1 DEF CommitIsAlone
<1>6. EventIdUnique'
  BY DEF EventIdUnique, IdTaken
<1>7. NoOrphanNodes'
  <2>1. ASSUME NEW n \in nodes', n.by # Seed
        PROVE  \E p \in performed' : p.by = n.by /\ p.ends[n.label] = n
    <3>1. CASE n \in nodes
      BY <2>1, <3>1 DEF NoOrphanNodes
    <3>2. CASE n \notin nodes
      <4>1. PICK l \in Labels : n = EdgeOf(r).ends[l]
        BY <2>1, <3>2 DEF Touched
      <4>2. n.label = l /\ n.by = r
        BY <3>2, <4>1, NodeType DEF Rows
      <4> QED BY <4>1, <4>2
    <3> QED BY <3>1, <3>2
  <2> QED BY <2>1 DEF NoOrphanNodes
<1>8. LocksExclusive'
  BY DEF LocksExclusive, Locked, IsOpen, OpenPhases, Labels
<1> QED BY <1>1, <1>2, <1>3, <1>4, <1>5, <1>6, <1>7, <1>8

LEMMA StepInv1 == Inv0 /\ Inv0' /\ Inv1 /\ [Next]_vars => Inv1'
<1> SUFFICES ASSUME Inv0, Inv0', Inv1, [Next]_vars PROVE Inv1'
  OBVIOUS
<1>1. ASSUME NEW c \in Calls,
             Emit(c) \/ Retry(c) \/ TransportError(c) \/ Respond(c)
      PROVE  Inv1'
  BY <1>1, ClientInv1
<1>2. ASSUME NEW r \in Requests,
             \/ Lose(r) \/ Receive(r) \/ Throttle(r)
             \/ RejectDuplicate(r) \/ DatabaseError(r) \/ Acknowledge(r)
      PROVE  Inv1'
  BY <1>2, RequestInv1
<1>3. ASSUME NEW r \in Requests, NEW l \in Labels, Merge(l, r) PROVE Inv1'
  BY <1>3, MergeInv1
<1>4. ASSUME NEW r \in Requests, CreatePerformed(r) PROVE Inv1'
  BY <1>4, CreateInv1
<1>5. ASSUME NEW r \in Requests, Commit(r) PROVE Inv1'
  BY <1>5, CommitInv1
<1>6. CASE Crash
  BY <1>6, CrashInv1
<1>7. CASE UNCHANGED vars
  <2>1. AcknowledgedIsStored'
    BY <1>7 DEF vars, Inv1, AcknowledgedIsStored, StoredBy
  <2> QED BY <1>7, <2>1, QuietInv1 DEF vars, graphVars, IsOpen
<1> QED
  BY <1>1, <1>2, <1>3, <1>4, <1>5, <1>6, <1>7 DEF Next, Server, Quiescent

LEMMA Invariant1 == Spec => [](Inv0 /\ Inv1)
<1>1. Init => Inv0 /\ Inv1
  BY InitInv0, InitInv1
<1>2. (Inv0 /\ Inv1) /\ [Next]_vars => (Inv0 /\ Inv1)'
  BY StepInv0, StepInv1
<1> QED BY <1>1, <1>2, PTL DEF Spec

\* No eventId is ever stored twice, whatever the producers, the retries and
\* the crashes do: the constraint and the reserved index entry suffice.
THEOREM EventIdsAreUnique == Spec => []EventIdUnique
<1>1. Inv0 /\ Inv1 => EventIdUnique
  BY DEF Inv1
<1> QED BY <1>1, Invariant1, PTL

\* 201 is never a lie, for any graph the events arrive at.
THEOREM AcknowledgedEventsAreStored == Spec => []AcknowledgedIsStored
<1>1. Inv0 /\ Inv1 => AcknowledgedIsStored
  BY DEF Inv1
<1> QED BY <1>1, Invariant1, PTL

\* WRITE_EVENT is all or nothing: no node outlives the failure of the
\* transaction that would have created it.
THEOREM WritesAreAtomic == Spec => []NoOrphanNodes
<1>1. Inv0 /\ Inv1 => NoOrphanNodes
  BY DEF Inv1
<1> QED BY <1>1, Invariant1, PTL

\* Two open transactions never hold the same user or object.
THEOREM LocksAreExclusive == Spec => []LocksExclusive
<1>1. Inv0 /\ Inv1 => LocksExclusive
  BY DEF Inv1
<1> QED BY <1>1, Invariant1, PTL

-----------------------------------------------------------------------------
(***************************************************************************)
(* lastSeen, and the ingestion counter.                                    *)
(***************************************************************************)

\* Edges end at committed nodes of their labels.
EdgesEndAtNodes ==
  \A p \in performed : \A l \in Labels : p.ends[l] \in nodes /\ p.ends[l].label = l

\* The edges whose handlers have no more to do.
Settled == {p \in performed : request[p.by] # "committed"}

\* Each increment of the counter stands for a settled edge.
Counted == IsFiniteSet(performed) /\ ingested <= Cardinality(Settled)

Inv3 == EdgesEndAtNodes /\ LastSeenIsLatest /\ Counted

LEMMA InitInv3 == Init => Inv3
<1> SUFFICES ASSUME Init PROVE Inv3
  OBVIOUS
<1>1. EdgesEndAtNodes /\ LastSeenIsLatest
  BY DEF Init, EdgesEndAtNodes, LastSeenIsLatest
<1>2. IsFiniteSet(performed) /\ Settled = {}
  BY FS_EmptySet DEF Init, Settled
<1>3. ingested = 0 /\ Cardinality(Settled) = 0
  BY <1>2, FS_EmptySet DEF Init
<1> QED BY <1>1, <1>2, <1>3 DEF Inv3, Counted

\* Steps that leave the graph alone.
LEMMA QuietInv3 ==
  ASSUME Inv3, UNCHANGED graphVars, Counted'
  PROVE  Inv3'
<1>1. EdgesEndAtNodes'
  BY DEF Inv3, EdgesEndAtNodes, graphVars
<1>2. LastSeenIsLatest'
  BY DEF Inv3, LastSeenIsLatest, Event, graphVars
<1> QED BY <1>1, <1>2 DEF Inv3

\* More settled edges, and no more counted.
LEMMA CountedStays ==
  ASSUME Counted, ingested \in Nat, performed' = performed, Settled \subseteq Settled',
         ingested' = ingested \/ ingested' = 0
  PROVE  Counted'
<1>1. Settled' \subseteq performed /\ IsFiniteSet(performed)
  BY DEF Settled, Counted
<1>2. IsFiniteSet(Settled') /\ Cardinality(Settled) <= Cardinality(Settled')
  BY <1>1, FS_Subset
<1>3. IsFiniteSet(Settled)
  BY <1>2, FS_Subset
<1>4. Cardinality(Settled) \in Nat /\ Cardinality(Settled') \in Nat
  BY <1>2, <1>3, FS_CardinalityType
<1> QED BY <1>1, <1>2, <1>4 DEF Counted

\* The one step that counts settles the edge it counts.
LEMMA AcknowledgeInv3 ==
  ASSUME Inv0, Inv1, Inv3, NEW r \in Requests, Acknowledge(r)
  PROVE  Inv3'
<1>1. PICK p \in performed : p.by = r
  BY DEF Acknowledge, Inv1, AnsweredIsStored
<1>2. /\ performed' = performed /\ ingested' = ingested + 1 /\ request[r] = "committed"
      /\ request'[r] = "201" /\ \A s \in Requests : s # r => request'[s] = request[s]
  BY DEF Acknowledge, graphVars, Inv0, TypeOK
<1>3. \A q \in performed : q.by \in Requests
  BY DEF Inv0, TypeOK, Edges
<1>4. p \notin Settled /\ Settled \union {p} \subseteq Settled'
  BY <1>1, <1>2, <1>3 DEF Settled
<1>5. Settled \subseteq performed /\ Settled' \subseteq performed /\ IsFiniteSet(performed)
  BY <1>2 DEF Settled, Inv3, Counted
<1>6. IsFiniteSet(Settled) /\ IsFiniteSet(Settled')
  BY <1>5, FS_Subset
<1>7. Cardinality(Settled \union {p}) = Cardinality(Settled) + 1
  BY <1>4, <1>6, FS_AddElement
<1>8. Cardinality(Settled \union {p}) <= Cardinality(Settled')
  BY <1>4, <1>6, FS_Subset
<1>9. Cardinality(Settled) \in Nat /\ Cardinality(Settled') \in Nat /\ ingested \in Nat
  BY <1>6, FS_CardinalityType DEF Inv0, TypeOK
<1>10. ingested + 1 <= Cardinality(Settled')
  BY <1>7, <1>8, <1>9 DEF Inv3, Counted
<1>11. Counted'
  BY <1>2, <1>5, <1>10 DEF Counted
<1> QED BY <1>11, QuietInv3 DEF Acknowledge

\* The timestamps that lastSeen of n is the latest of.
Times(n) == {Event(p.by).eventTimestamp : p \in {q \in performed : q.ends[n.label] = n}} \union {0}

\* A commit raises lastSeen of the nodes that its edge ends at.
LEMMA CommitInv3 ==
  ASSUME Inv0, Inv1, Inv3, NEW r \in Requests, Commit(r)
  PROVE  Inv3'
<1>1. PICK edge : edge = EdgeOf(r)
  OBVIOUS
<1>2. PICK now \in Nat : now = Event(r).eventTimestamp
  BY IngestionAssumption DEF Event, Requests
<1>3. /\ request[r] = "Commit" /\ request'[r] = "committed"
      /\ \A s \in Requests : s # r => request'[s] = request[s]
      /\ performed' = performed \union {edge} /\ edge.by = r
      /\ \A l \in Labels : edge.ends[l] \in bound[r][l]
  BY <1>1, CommitFacts
<1>4. Touched(r) = {edge.ends[l] : l \in Labels}
  BY <1>1 DEF Touched
<1>5. nodes' = nodes \union Touched(r)
  BY CommitFacts
<1>6. \A l \in Labels : edge.ends[l].label = l /\ edge.ends[l] \in nodes'
  BY <1>3, <1>4, <1>5 DEF Inv1, Rows
<1>7. EdgesEndAtNodes'
  BY <1>3, <1>5, <1>6 DEF Inv3, EdgesEndAtNodes
<1>8. LastSeenIsLatest'
  <2> SUFFICES ASSUME NEW n \in nodes', n.label # "Application"
               PROVE  lastSeen'[n] \in Times(n)' /\ \A t \in Times(n)' : t <= lastSeen'[n]
    BY DEF LastSeenIsLatest, Times
  <2>1. n.label \in Labels
    <3>1. CASE n \in nodes
      BY <3>1 DEF Inv0, TypeOK, Nodes
    <3>2. CASE n \in Touched(r)
      BY <1>4, <1>6, <3>2
    <3> QED BY <1>5, <3>1, <3>2
  <2>2. PICK before : before = IF n \in nodes THEN lastSeen[n] ELSE 0
    OBVIOUS
  <2>3. before \in Nat
    BY <2>2 DEF Inv0, TypeOK
  <2>4. before \in Times(n) /\ \A t \in Times(n) : t <= before
    <3>1. CASE n \in nodes
      BY <2>2, <3>1 DEF Inv3, LastSeenIsLatest, Times
    <3>2. CASE n \notin nodes
      <4>1. {q \in performed : q.ends[n.label] = n} = {}
        BY <2>1, <3>2 DEF Inv3, EdgesEndAtNodes
      <4>2. Times(n) = {0}
        BY <4>1 DEF Times
      <4> QED BY <2>2, <3>2, <4>2
    <3> QED BY <3>1, <3>2
  <2>5. lastSeen'[n] = IF n \in Touched(r) /\ now > before THEN now ELSE before
    <3>1. lastSeen'[n] = Seen(n, r)
      BY DEF Commit
    <3> QED BY <1>2, <2>2, <3>1 DEF Seen
  <2>6. n \in Touched(r) <=> edge.ends[n.label] = n
    BY <1>4, <1>6, <2>1
  <2>7. CASE n \in Touched(r)
    <3>1. Times(n)' = Times(n) \union {now}
      BY <1>2, <1>3, <2>6, <2>7 DEF Times, Event
    <3>2. Times(n) \subseteq Nat
      BY IngestionAssumption DEF Times, Event, Requests, Inv0, TypeOK, Edges
    <3>3. CASE now > before
      <4>1. lastSeen'[n] = now
        BY <2>5, <2>7, <3>3
      <4>2. \A t \in Times(n) : t <= now
        BY <1>2, <2>3, <2>4, <3>2, <3>3
      <4> QED BY <1>2, <3>1, <4>1, <4>2
    <3>4. CASE ~(now > before)
      <4>1. lastSeen'[n] = before
        BY <2>5, <3>4
      <4>2. now <= before
        BY <1>2, <2>3, <3>4
      <4> QED BY <2>4, <3>1, <4>1, <4>2
    <3> QED BY <3>3, <3>4
  <2>8. CASE n \notin Touched(r)
    <3>1. Times(n)' = Times(n)
      BY <1>3, <2>6, <2>8 DEF Times, Event
    <3> QED BY <2>4, <2>5, <2>8, <3>1
  <2> QED BY <2>7, <2>8
<1>9. Counted'
  <2>1. IsFiniteSet(performed')
    BY <1>3, FS_AddElement DEF Inv3, Counted
  <2>2. \A q \in performed : q.by \in Requests /\ q.by # r
    BY <1>3 DEF Inv0, TypeOK, Edges, Inv1, EdgesArePast, Past, Replies
  <2>3. Settled' = Settled
    BY <1>3, <2>2 DEF Settled
  <2>4. ingested' = ingested
    BY DEF Commit
  <2> QED BY <2>1, <2>3, <2>4 DEF Inv3, Counted
<1> QED BY <1>7, <1>8, <1>9 DEF Inv3

LEMMA StepInv3 == Inv0 /\ Inv0' /\ Inv1 /\ Inv3 /\ [Next]_vars => Inv3'
<1> SUFFICES ASSUME Inv0, Inv0', Inv1, Inv3, [Next]_vars PROVE Inv3'
  OBVIOUS
<1>1. ASSUME NEW r \in Requests, Commit(r)  PROVE Inv3'
  BY <1>1, CommitInv3
<1>2. ASSUME NEW r \in Requests, Acknowledge(r)  PROVE Inv3'
  BY <1>2, AcknowledgeInv3
<1>3. CASE /\ UNCHANGED graphVars
           /\ ingested' = ingested \/ ingested' = 0
           /\ \A s \in Requests : request'[s] = "committed" => request[s] = "committed"
  <2>1. \A q \in performed : q.by \in Requests
    BY DEF Inv0, TypeOK, Edges
  <2>2. Settled \subseteq Settled' /\ performed' = performed
    BY <1>3, <2>1 DEF Settled, graphVars
  <2>3. Counted'
    BY <1>3, <2>2, CountedStays DEF Inv3, Inv0, TypeOK
  <2> QED BY <1>3, <2>3, QuietInv3
<1>4. ASSUME NEW c \in Calls, Emit(c) \/ Retry(c) \/ TransportError(c) \/ Respond(c)
      PROVE  Inv3'
  BY <1>3, <1>4 DEF Emit, Retry, TransportError, Respond, Inv0, TypeOK
<1>5. ASSUME NEW r \in Requests,
             Lose(r) \/ Receive(r) \/ Throttle(r) \/ RejectDuplicate(r) \/ DatabaseError(r)
      PROVE  Inv3'
  BY <1>3, <1>5 DEF Lose, Receive, Throttle, RejectDuplicate, DatabaseError, Leave, Inv0, TypeOK
<1>6. ASSUME NEW r \in Requests, CreatePerformed(r) \/ \E l \in Labels : Merge(l, r)
      PROVE  Inv3'
  BY <1>3, <1>6 DEF CreatePerformed, Merge, NextPhase, Labels, Inv0, TypeOK
<1>7. CASE Crash
  BY <1>3, <1>7 DEF Crash, Inv0, TypeOK
<1>8. CASE UNCHANGED vars
  BY <1>3, <1>8 DEF vars, graphVars
<1> QED
  BY <1>1, <1>2, <1>4, <1>5, <1>6, <1>7, <1>8 DEF Next, Server, Quiescent

LEMMA Invariant3 == Spec => []Inv3
<1>1. Init => Inv3
  BY InitInv3
<1>2. (Inv0 /\ Inv1) /\ (Inv0 /\ Inv1)' /\ Inv3 /\ [Next]_vars => Inv3'
  BY StepInv3
<1> QED BY <1>1, <1>2, Invariant1, PTL DEF Spec

\* lastSeen is the latest timestamp of the node's events, whichever
\* transactions raise it in whatever order (ON MATCH SET).
THEOREM LastSeenIsTheLatest == Spec => []LastSeenIsLatest
<1>1. Inv3 => LastSeenIsLatest
  BY DEF Inv3
<1> QED BY <1>1, Invariant3, PTL

\* No handler counts an event that is not in the graph (_ingest_one).
THEOREM CountedEventsAreStored == Spec => []CountedIsStored
<1>1. Inv0 /\ Inv3 => CountedIsStored
  <2> SUFFICES ASSUME Inv0, Inv3 PROVE ingested <= Cardinality(performed)
    BY DEF CountedIsStored
  <2>1. Settled \subseteq performed
    BY DEF Settled
  <2>2. IsFiniteSet(Settled) /\ Cardinality(Settled) <= Cardinality(performed)
    BY <2>1, FS_Subset DEF Inv3, Counted
  <2>3. Cardinality(Settled) \in Nat /\ Cardinality(performed) \in Nat /\ ingested \in Nat
    BY <2>2, FS_CardinalityType DEF Inv3, Counted, Inv0, TypeOK
  <2> QED BY <2>2, <2>3 DEF Inv3, Counted
<1> QED BY <1>1, Invariant1, Invariant3, PTL

-----------------------------------------------------------------------------
(***************************************************************************)
(* Safety of race-free producers: a success is a stored event.             *)
(***************************************************************************)

SeedsStay == \A s \in Seeded : SeedNode(s) \in nodes

\* While a transaction holds a node that it will create, no one else has
\* committed that node, unless its eventId is taken and it cannot commit.
Fresh ==
  \A r \in Requests : \A l \in Labels :
    Node(l, r) \in bound[r][l] =>
      \/ IdTaken(r)
      \/ \A n \in nodes : ~(n.label = l /\ n.key = Key(l, Event(r)))

SingleRows == \A r \in Requests : SingleRow(r)

\* A 409, on its way or received, names an eventId that is in the graph.
DuplicateIsTaken ==
  /\ \A r \in Requests : request[r] = "409" => IdTaken(r)
  /\ \A c \in Calls : call[c] = "duplicate" =>
       \E p \in performed : Event(p.by).eventId = EventOf[c].eventId

\* The inductive strengthening of NodeKeysUnique and SuccessIsStored.
Inv2 == SeedsStay /\ Fresh /\ NodeKeysUnique /\ SingleRows /\ DuplicateIsTaken

LEMMA InitInv2 == Init => Inv2
<1> SUFFICES ASSUME Init PROVE Inv2
  OBVIOUS
<1>1. SeedsStay /\ Fresh /\ SingleRows
  BY DEF Init, SeedsStay, Fresh, SingleRows, SingleRow, NoRows
<1>2. NodeKeysUnique
  BY DEF Init, NodeKeysUnique, SeedNode
<1>3. DuplicateIsTaken
  BY DEF Init, DuplicateIsTaken
<1> QED BY <1>1, <1>2, <1>3 DEF Inv2

\* A step that leaves the graph alone and binds nothing keeps the first four.
LEMMA QuietInv2 ==
  ASSUME Inv2, UNCHANGED graphVars, DuplicateIsTaken',
         \A s \in Requests : bound'[s] = bound[s] \/ bound'[s] = NoRows
  PROVE  Inv2'
<1> USE DEF Inv2
<1>1. SeedsStay' /\ NodeKeysUnique'
  BY DEF SeedsStay, NodeKeysUnique, graphVars
<1>2. Fresh'
  BY DEF Fresh, IdTaken, graphVars, NoRows
<1>3. SingleRows'
  BY DEF SingleRows, SingleRow, NoRows
<1> QED BY <1>1, <1>2, <1>3

\* Nothing that was taken is freed, so only a new 409 has to be justified.
LEMMA DuplicateStays ==
  ASSUME DuplicateIsTaken, performed \subseteq performed',
         \A s \in Requests : request'[s] = "409" => request[s] = "409" \/ IdTaken(s),
         \A c \in Calls : call'[c] = "duplicate" =>
           call[c] = "duplicate" \/ \E p \in performed : Event(p.by).eventId = EventOf[c].eventId
  PROVE  DuplicateIsTaken'
BY DEF DuplicateIsTaken, IdTaken

LEMMA ClientInv2 ==
  ASSUME Inv0, Inv2, NEW c \in Calls,
         Emit(c) \/ Retry(c) \/ TransportError(c) \/ Respond(c)
  PROVE  Inv2'
<1>1. UNCHANGED graphVars /\ UNCHANGED bound
  BY DEF Emit, Retry, TransportError, Respond
<1>2. ASSUME NEW s \in Requests, request'[s] = "409" PROVE request[s] = "409"
  BY <1>2 DEF Emit, Retry, TransportError, Respond, Inv0, TypeOK
<1>3. ASSUME NEW d \in Calls, call'[d] = "duplicate", call[d] # "duplicate"
      PROVE  \E p \in performed : Event(p.by).eventId = EventOf[d].eventId
  <2>1. Respond(c) /\ d = c
    BY <1>3 DEF Emit, Retry, TransportError, Respond, AfterFailure, Inv0, TypeOK
  <2>2. OnResponse(c, request[Current(c)]) = "duplicate"
    BY <1>3, <2>1 DEF Respond, Inv0, TypeOK
  <2>3. request[Current(c)] = "409"
    BY <2>1, <2>2 DEF Respond, OnResponse, AfterFailure, Replies
  <2>4. Current(c) \in Requests /\ Event(Current(c)) = EventOf[c]
    BY CurrentType, RequestType DEF Inv0, TypeOK
  <2> QED BY <2>1, <2>3, <2>4 DEF Inv2, DuplicateIsTaken, IdTaken
<1>4. DuplicateIsTaken'
  BY <1>1, <1>2, <1>3, DuplicateStays DEF Inv2, graphVars
<1> QED BY <1>1, <1>4, QuietInv2

LEMMA RequestInv2 ==
  ASSUME Inv0, Inv2, NEW r \in Requests,
         \/ Lose(r) \/ Receive(r) \/ Throttle(r) \/ CreatePerformed(r)
         \/ RejectDuplicate(r) \/ DatabaseError(r) \/ Acknowledge(r)
  PROVE  Inv2'
<1> USE DEF Lose, Receive, Throttle, CreatePerformed, RejectDuplicate,
            DatabaseError, Acknowledge, Leave
<1>1. UNCHANGED graphVars /\ UNCHANGED clientVars
  OBVIOUS
<1>2. \A s \in Requests : bound'[s] = bound[s] \/ bound'[s] = NoRows
  BY DEF Inv0, TypeOK
<1>3. ASSUME NEW s \in Requests, request'[s] = "409"
      PROVE  request[s] = "409" \/ (s = r /\ RejectDuplicate(r))
  BY <1>3 DEF Inv0, TypeOK
<1>4. RejectDuplicate(r) => IdTaken(r)
  BY DEF ViolatesConstraint, Inv2, SingleRows
<1> HIDE DEF RejectDuplicate
<1>5. DuplicateIsTaken'
  BY <1>1, <1>3, <1>4, DuplicateStays DEF Inv2, graphVars, clientVars
<1> QED BY <1>1, <1>2, <1>5, QuietInv2

LEMMA MergeInv2 ==
  ASSUME Inv0, Inv1, Inv2, NEW r \in Requests, NEW l \in Labels, Merge(l, r)
  PROVE  Inv2'
<1> DEFINE rows == IF Matches(l, r) = {} THEN {Node(l, r)} ELSE Matches(l, r)
<1>1. /\ request[r] = l
      /\ bound' = [bound EXCEPT ![r][l] = rows]
      /\ request' = [request EXCEPT ![r] = NextPhase(l)]
      /\ UNCHANGED clientVars /\ UNCHANGED graphVars
  BY DEF Merge
<1>2. \A m, n \in rows : m = n
  BY DEF Matches, Inv2, NodeKeysUnique
<1>3. Matches(l, r) # {} \/ \A n \in nodes : ~(n.label = l /\ n.key = Key(l, Event(r)))
  BY DEF Matches
<1>4. Matches(l, r) # {} => rows \subseteq nodes
  BY DEF Matches
<1> HIDE DEF rows
<1> USE DEF Inv2
<1>5. \A s \in Requests : \A m \in Labels :
        bound'[s][m] = IF s = r /\ m = l THEN rows ELSE bound[s][m]
  BY <1>1 DEF Inv0, TypeOK
<1>6. SeedsStay' /\ NodeKeysUnique'
  BY <1>1 DEF SeedsStay, NodeKeysUnique, graphVars
<1>7. SingleRows'
  BY <1>2, <1>5 DEF SingleRows, SingleRow
<1>8. Fresh'
  <2>1. ASSUME Node(l, r) \in rows
        PROVE  IdTaken(r) \/ \A n \in nodes : ~(n.label = l /\ n.key = Key(l, Event(r)))
    <3>1. Node(l, r) \notin nodes
      BY <1>1, OwnNodeIsNew DEF IsOpen, OpenPhases
    <3> QED BY <1>3, <1>4, <2>1, <3>1
  <2> QED BY <1>1, <1>5, <2>1 DEF Fresh, IdTaken, graphVars
<1>9. DuplicateIsTaken'
  <2>1. NextPhase(l) # "409"
    BY DEF NextPhase, Labels
  <2> QED BY <1>1, <2>1, DuplicateStays DEF graphVars, clientVars, Inv0, TypeOK
<1> QED BY <1>6, <1>7, <1>8, <1>9

\* Two transactions that could both create a node of RaceFree calls would
\* hold the same user.
LEMMA NoRace ==
  ASSUME RaceFree, Inv0, Inv1, Inv2,
         NEW r \in Requests, NEW s \in Requests, NEW l \in Labels,
         r[1] # s[1], request[s] = "Commit",
         Node(l, r) \in bound[r][l], Node(l, s) \in bound[s][l],
         Key(l, Event(r)) = Key(l, Event(s))
  PROVE  IdTaken(r)
<1> SUFFICES ASSUME ~IdTaken(r) PROVE FALSE
  OBVIOUS
<1>1. ~IdTaken(s)
  BY DEF Inv1, CommitIsAlone
<1> DEFINE u == Key("User", Event(r))
<1>2. ~IsSeeded(l, Key(l, Event(r)))
  BY DEF Inv2, Fresh, SeedsStay, IsSeeded, SeedNode
<1>3. u = Key("User", Event(s)) /\ IsSeeded("User", u)
  BY <1>2, RequestType DEF RaceFree
<1> DEFINE seed == SeedNode([label |-> "User", key |-> u])
<1>4. seed \in nodes /\ seed.label = "User" /\ seed.key = u
  BY <1>3 DEF Inv2, SeedsStay, IsSeeded, SeedNode
<1>5. ASSUME NEW t \in Requests, ~IdTaken(t), Key("User", Event(t)) = u,
             bound[t]["User"] # {}
      PROVE  seed \in bound[t]["User"]
  <2>1. "User" \in Labels
    BY DEF Labels
  <2>2. PICK n \in bound[t]["User"] : TRUE
    BY <1>5
  <2>3. n.label = "User" /\ n.key = u /\ (n \in nodes \/ n = Node("User", t))
    BY <1>5, <2>1, <2>2 DEF Inv1, Rows
  <2>4. n # Node("User", t)
    BY <1>4, <1>5, <2>1, <2>2 DEF Inv2, Fresh
  <2>5. n = seed
    BY <1>4, <2>3, <2>4 DEF Inv2, NodeKeysUnique
  <2> QED BY <2>2, <2>5
<1>6. IsOpen(r) /\ IsOpen(s) /\ bound[r]["User"] # {} /\ bound[s]["User"] # {}
  BY DEF Inv0, Filled
<1>7. seed \in bound[r]["User"] /\ seed \in bound[s]["User"]
  BY <1>1, <1>3, <1>5, <1>6
<1> QED BY <1>6, <1>7 DEF Inv1, LocksExclusive, Locked, Labels

LEMMA CommitInv2 ==
  ASSUME RaceFree, Inv0, Inv1, Inv2, NEW r \in Requests, Commit(r)
  PROVE  Inv2'
<1> USE CommitFacts DEF Inv2
<1>1. SeedsStay'
  BY DEF SeedsStay
<1>2. SingleRows'
  BY DEF SingleRows, SingleRow, NoRows
<1>3. DuplicateIsTaken'
  BY DuplicateStays DEF clientVars
<1>4. ASSUME NEW n \in nodes', n \notin nodes
      PROVE  \E l \in Labels : /\ n = Node(l, r) /\ n \in bound[r][l]
                              /\ n.label = l /\ n.key = Key(l, Event(r))
  <2>1. PICK l \in Labels : n = EdgeOf(r).ends[l]
    BY <1>4 DEF Touched
  <2> QED BY <1>4, <2>1 DEF Inv1, Rows
<1>5. NodeKeysUnique'
  <2>1. ASSUME NEW m \in nodes', NEW n \in nodes', m \notin nodes,
               m.label = n.label, m.key = n.key
        PROVE  m = n
    <3>1. PICK l \in Labels : /\ m = Node(l, r) /\ m \in bound[r][l]
                             /\ m.label = l /\ m.key = Key(l, Event(r))
      BY <1>4, <2>1
    <3>2. n \notin nodes
      BY <2>1, <3>1 DEF Fresh
    <3> QED BY <1>4, <2>1, <3>1, <3>2
  <2> QED BY <2>1 DEF NodeKeysUnique
<1>6. Fresh'
  <2>1. ASSUME NEW s \in Requests, NEW l \in Labels,
               Node(l, s) \in bound'[s][l], ~IdTaken(s)',
               NEW n \in nodes', n.label = l, n.key = Key(l, Event(s))
        PROVE  FALSE
    <3>1. s # r /\ Node(l, s) \in bound[s][l]
      BY <2>1 DEF NoRows
    <3>2. ~IdTaken(s) /\ Event(s).eventId # Event(r).eventId
      BY <2>1 DEF IdTaken
    <3>3. n \notin nodes
      BY <2>1, <3>1, <3>2 DEF Fresh
    <3>4. n = Node(l, r) /\ n \in bound[r][l] /\ n.key = Key(l, Event(r))
      BY <1>4, <2>1, <3>3
    <3>5. s[1] # r[1]
      BY <3>2, RequestType
    <3> QED BY <2>1, <3>1, <3>2, <3>4, <3>5, NoRace
  <2> QED BY <2>1 DEF Fresh
<1> QED BY <1>1, <1>2, <1>3, <1>5, <1>6

LEMMA StepInv2 ==
  RaceFree /\ Inv0 /\ Inv1 /\ Inv2 /\ [Next]_vars => Inv2'
<1> SUFFICES ASSUME RaceFree, Inv0, Inv1, Inv2, [Next]_vars PROVE Inv2'
  OBVIOUS
<1>1. ASSUME NEW c \in Calls,
             Emit(c) \/ Retry(c) \/ TransportError(c) \/ Respond(c)
      PROVE  Inv2'
  BY <1>1, ClientInv2
<1>2. ASSUME NEW r \in Requests,
             \/ Lose(r) \/ Receive(r) \/ Throttle(r) \/ CreatePerformed(r)
             \/ RejectDuplicate(r) \/ DatabaseError(r) \/ Acknowledge(r)
      PROVE  Inv2'
  BY <1>2, RequestInv2
<1>3. ASSUME NEW r \in Requests, NEW l \in Labels, Merge(l, r) PROVE Inv2'
  BY <1>3, MergeInv2
<1>4. ASSUME NEW r \in Requests, Commit(r) PROVE Inv2'
  BY <1>4, CommitInv2
<1>5. CASE Crash
  <2>1. UNCHANGED graphVars /\ UNCHANGED clientVars
    BY <1>5 DEF Crash
  <2>2. DuplicateIsTaken'
    BY <1>5, <2>1, DuplicateStays DEF Crash, Inv2, graphVars, clientVars
  <2> QED BY <1>5, <2>1, <2>2, QuietInv2 DEF Crash
<1>6. CASE UNCHANGED vars
  <2>1. DuplicateIsTaken'
    BY <1>6, DuplicateStays DEF Inv2, vars
  <2> QED BY <1>6, <2>1, QuietInv2 DEF vars, graphVars
<1> QED
  BY <1>1, <1>2, <1>3, <1>4, <1>5, <1>6 DEF Next, Server, Quiescent

LEMMA Invariant2 == ASSUME RaceFree PROVE Spec => [](Inv0 /\ Inv1 /\ Inv2)
<1>1. Init => Inv2
  BY InitInv2
<1>2. Inv0 /\ Inv1 /\ Inv2 /\ [Next]_vars => Inv2'
  BY StepInv2
<1> QED BY <1>1, <1>2, Invariant1, PTL DEF Spec

\* Race-free producers never duplicate a User, Application or BusinessObject.
THEOREM NodesAreUnique == ASSUME RaceFree PROVE Spec => []NodeKeysUnique
<1>1. Inv0 /\ Inv1 /\ Inv2 => NodeKeysUnique
  BY DEF Inv2
<1> QED BY <1>1, Invariant2, PTL

\* For race-free producers with distinct eventIds, treating 409 as success is
\* right: whatever was lost, retried or restarted, the event is in the graph.
THEOREM SuccessesAreStored ==
  ASSUME RaceFree, DistinctIds PROVE Spec => []SuccessIsStored
<1>1. Inv0 /\ Inv1 /\ Inv2 => SuccessIsStored
  <2> SUFFICES ASSUME Inv0, Inv1, Inv2, NEW c \in Calls,
                      call[c] \in {"accepted", "duplicate"}
               PROVE  StoredBy(c)
    BY DEF SuccessIsStored
  <2>1. CASE call[c] = "accepted"
    BY <2>1 DEF Inv1, AcknowledgedIsStored
  <2>2. CASE call[c] = "duplicate"
    <3>1. PICK p \in performed : Event(p.by).eventId = EventOf[c].eventId
      BY <2>2 DEF Inv2, DuplicateIsTaken
    <3>2. p.by \in Requests
      BY DEF Inv0, TypeOK, Edges
    <3>3. p.by[1] = c
      BY <3>1, <3>2, RequestType DEF DistinctIds
    <3> QED BY <3>3 DEF StoredBy
  <2> QED BY <2>1, <2>2
<1> QED BY <1>1, Invariant2, PTL

-----------------------------------------------------------------------------
(***************************************************************************)
(* Ingestion implements EventStore.                                        *)
(***************************************************************************)

\* The refinement mapping.
storedCalls == {p.by[1] : p \in performed}

toldCalls == [c \in Calls |-> Told(c)]

IdOfCall == [c \in Calls |-> EventOf[c].eventId]

LEMMA StoreInitially == Init => Store!StoreInit
BY DEF Init, Store!StoreInit, Told

\* What a call is told changes only at its own client steps.
LEMMA ToldStays ==
  ASSUME UNCHANGED clientVars PROVE toldCalls' = toldCalls
BY DEF clientVars, toldCalls, Told

\* A commit is Persist.
LEMMA CommitPersists ==
  ASSUME Inv0, Inv1, NEW r \in Requests, Commit(r)
  PROVE  Store!Persist(r[1])
<1> USE CommitFacts
<1>1. r[1] \in Calls
  BY RequestType
<1>2. ASSUME NEW p \in performed
      PROVE  /\ p.by[1] \in Calls
             /\ IdOfCall[p.by[1]] # IdOfCall[r[1]]
  <2>1. p.by \in Requests
    BY DEF Inv0, TypeOK, Edges
  <2> QED BY <2>1, <1>1, RequestType DEF IdTaken, IdOfCall
<1>3. storedCalls' = storedCalls \union {r[1]}
  BY DEF storedCalls
<1>4. toldCalls' = toldCalls
  BY ToldStays
<1>5. ~Store!IsPersisted(IdOfCall[r[1]])
  <2>1. \A d \in storedCalls : IdOfCall[d] # IdOfCall[r[1]]
    BY <1>2 DEF storedCalls
  <2>2. Store!IsPersisted(IdOfCall[r[1]]) <=>
          \E d \in storedCalls : IdOfCall[d] = IdOfCall[r[1]]
    BY DEF Store!IsPersisted, storedCalls, IdOfCall
  <2> QED BY <2>1, <2>2
<1> QED
  BY <1>1, <1>3, <1>4, <1>5 DEF Store!Persist, storedCalls, toldCalls, IdOfCall

\* A step of the SDK tells one caller something true, or nothing.
LEMMA ClientTells ==
  ASSUME Inv0, Inv1, Inv2, NEW c \in Calls,
         Emit(c) \/ Retry(c) \/ TransportError(c) \/ Respond(c)
  PROVE  Store!StoreNext \/ UNCHANGED <<storedCalls, toldCalls>>
<1>1. storedCalls' = storedCalls
  BY DEF Emit, Retry, TransportError, Respond, graphVars, storedCalls
<1>2. \A d \in Calls : d # c => Told(d)' = Told(d)
  BY DEF Emit, Retry, TransportError, Respond, Told, Inv0, TypeOK
<1>3. Told(c) = "pending"
  BY DEF Emit, Retry, TransportError, Respond, Told
<1>4. toldCalls' = [toldCalls EXCEPT ![c] = Told(c)']
  BY <1>2 DEF toldCalls
<1>5. CASE Told(c)' = "pending"
  BY <1>1, <1>2, <1>3, <1>5 DEF toldCalls
<1>6. CASE Told(c)' = "failed"
  BY <1>1, <1>3, <1>4, <1>6
     DEF Store!StoreNext, Store!Fail, Store!Tell, storedCalls, toldCalls
<1>7. CASE Told(c)' = "accepted"
  <2>1. Respond(c) /\ OnResponse(c, request[Current(c)]) = "accepted"
    BY <1>7 DEF Emit, Retry, TransportError, Respond, AfterFailure, Told, Inv0, TypeOK
  <2>2. request[Current(c)] = "201"
    BY <2>1 DEF Respond, OnResponse, AfterFailure, Replies
  <2>3. PICK p \in performed : p.by = Current(c)
    BY <2>2, CurrentType DEF Inv0, TypeOK, Inv1, AnsweredIsStored
  <2>4. c \in storedCalls
    BY <2>3, CurrentType DEF Inv0, TypeOK, storedCalls
  <2> QED
    BY <1>1, <1>3, <1>4, <1>7, <2>4
       DEF Store!StoreNext, Store!Accept, Store!Tell, storedCalls, toldCalls
<1>8. CASE Told(c)' = "duplicate"
  <2>1. Respond(c) /\ OnResponse(c, request[Current(c)]) = "duplicate"
    BY <1>8 DEF Emit, Retry, TransportError, Respond, AfterFailure, Told, Inv0, TypeOK
  <2>2. request[Current(c)] = "409"
    BY <2>1 DEF Respond, OnResponse, AfterFailure, Replies
  <2>3. Current(c) \in Requests /\ Event(Current(c)) = EventOf[c]
    BY CurrentType, RequestType DEF Inv0, TypeOK
  <2>4. PICK p \in performed : Event(p.by).eventId = EventOf[c].eventId
    BY <2>2, <2>3 DEF Inv2, DuplicateIsTaken, IdTaken
  <2>5. p.by \in Requests
    BY DEF Inv0, TypeOK, Edges
  <2>6. p.by[1] \in storedCalls /\ IdOfCall[p.by[1]] = IdOfCall[c]
    BY <2>4, <2>5, RequestType DEF storedCalls, IdOfCall
  <2>7. Store!IsPersisted(IdOfCall[c])
    BY <2>6 DEF Store!IsPersisted, storedCalls, IdOfCall
  <2> QED
    BY <1>1, <1>3, <1>4, <1>8, <2>7
       DEF Store!StoreNext, Store!ReportDuplicate, Store!Tell, storedCalls,
           toldCalls, IdOfCall
<1> QED BY <1>5, <1>6, <1>7, <1>8 DEF Told

LEMMA StoreStep ==
  ASSUME Inv0, Inv1, Inv2, [Next]_vars
  PROVE  [Store!StoreNext]_Store!storeVars
<1>1. ASSUME NEW c \in Calls,
             Emit(c) \/ Retry(c) \/ TransportError(c) \/ Respond(c)
      PROVE  Store!StoreNext \/ UNCHANGED <<storedCalls, toldCalls>>
  BY <1>1, ClientTells
<1>2. ASSUME NEW r \in Requests, Commit(r) PROVE Store!StoreNext
  BY <1>2, CommitPersists, RequestType DEF Store!StoreNext
<1>3. ASSUME UNCHANGED graphVars, UNCHANGED clientVars
      PROVE  UNCHANGED <<storedCalls, toldCalls>>
  BY <1>3, ToldStays DEF graphVars, storedCalls
<1>4. ASSUME NEW r \in Requests,
             \/ Lose(r) \/ Receive(r) \/ Throttle(r) \/ CreatePerformed(r)
             \/ RejectDuplicate(r) \/ DatabaseError(r) \/ Acknowledge(r)
      PROVE  UNCHANGED <<storedCalls, toldCalls>>
  BY <1>3, <1>4 DEF Lose, Receive, Throttle, CreatePerformed, RejectDuplicate,
                    DatabaseError, Acknowledge
<1>5. ASSUME NEW r \in Requests, NEW l \in Labels, Merge(l, r)
      PROVE  UNCHANGED <<storedCalls, toldCalls>>
  BY <1>3, <1>5 DEF Merge
<1>6. ASSUME Crash \/ UNCHANGED vars PROVE UNCHANGED <<storedCalls, toldCalls>>
  BY <1>3, <1>6 DEF Crash, vars, graphVars, clientVars
<1>7. Store!StoreNext \/ UNCHANGED <<storedCalls, toldCalls>>
  BY <1>1, <1>2, <1>4, <1>5, <1>6 DEF Next, Server, Quiescent
<1> QED BY <1>7 DEF Store!storeVars, storedCalls, toldCalls

\* Race-free ingestion, with its retries, lost messages, lost commit
\* acknowledgements and crashes, implements the store that producers are
\* promised.
THEOREM IngestionImplementsStore ==
  ASSUME RaceFree PROVE Spec => ImplementsStore
<1>1. Init => Store!StoreInit
  BY StoreInitially
<1>2. Inv0 /\ Inv1 /\ Inv2 /\ [Next]_vars => [Store!StoreNext]_Store!storeVars
  BY StoreStep
<1> QED BY <1>1, <1>2, Invariant2, PTL DEF Spec, ImplementsStore, Store!StoreSpec

=============================================================================
