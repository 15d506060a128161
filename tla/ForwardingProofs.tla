-------------------------- MODULE ForwardingProofs --------------------------
(***************************************************************************)
(* Theorems about Forwarding, for any number of lines, starts, webhooks    *)
(* and deliveries.                                                         *)
(***************************************************************************)
EXTENDS Forwarding, FiniteSetTheorems, TLAPS

-----------------------------------------------------------------------------
(***************************************************************************)
(* The inductive invariant.                                                *)
(***************************************************************************)

JiraRequests ==
  {Request("jira", w, n, Transform(PayloadOf[w])) :
     w \in {v \in Webhooks : Transform(PayloadOf[v]) # None}, n \in 1 .. MaxDeliveries}

Kinds == {"malformed", "refused", "other_app", "event"}

\* The types of the state.
Types ==
  /\ written \in 0 .. Lines
  /\ torn \in Cuts \union {None}
  /\ torn # None => written < Lines
  /\ listener \in {"down", "reading", "posting"}
  /\ starts \in 0 .. MaxStarts
  /\ listener # "down" => starts > 0
  /\ first \in 0 .. Lines
  /\ position \in 0 .. written
  /\ inside \in Cuts \union {None}
  /\ inside # None => position < Lines
  /\ IF listener = "posting" THEN post \in LogRequests ELSE post = None
  /\ delivered \in [Webhooks -> 0 .. MaxDeliveries]
  /\ handling \subseteq JiraRequests
  /\ abandoned \subseteq LogRequests \union JiraRequests
  /\ stored \in Seq(LogRequests \union JiraRequests)

FromLog(request) == request.source = "log"

\* What the present run of the listener has posted, it has read: the beginning
\* of the next line only if its last readline ended in there.
HasRead(request) ==
  request.try = starts =>
    \/ request.of <= position
    \/ request.of = position + 1 /\ inside \in {"value", "app", "newline"}

\* No run to come has posted anything, and one that has ended left at most one
\* request behind, which comes after all that it has stored.
PostsInOrder ==
  /\ LinesForwardedOnce
  /\ \A k \in DOMAIN stored : FromLog(stored[k]) =>
       stored[k].try <= starts /\ (listener # "down" => HasRead(stored[k]))
  /\ listener = "posting" =>
       /\ post.try = starts /\ HasRead(post)
       /\ \A k \in DOMAIN stored :
            FromLog(stored[k]) /\ stored[k].try = starts => stored[k].of < post.of
  /\ \A a \in abandoned : FromLog(a) =>
       /\ a.try <= starts
       /\ a.try = starts => listener = "down"
       /\ \A k \in DOMAIN stored :
            FromLog(stored[k]) /\ stored[k].try = a.try => stored[k].of < a.of
       /\ \A b \in abandoned : FromLog(b) /\ b.try = a.try => a = b

LogInv == Types /\ PostsInOrder

-----------------------------------------------------------------------------
(***************************************************************************)
(* Facts about requests and about appending.                               *)
(***************************************************************************)

LEMMA LogRequestType ==
  ASSUME NEW request \in LogRequests
  PROVE  /\ FromLog(request)
         /\ request.of \in 1 .. Lines
         /\ request.try \in 1 .. MaxStarts
BY DEF LogRequests, Request, FromLog

LEMMA JiraRequestType ==
  ASSUME NEW request \in JiraRequests
  PROVE  /\ ~FromLog(request)
         /\ request.source = "jira"
         /\ request.of \in Webhooks
         /\ request.try \in 1 .. MaxDeliveries
         /\ request.event = Transform(PayloadOf[request.of])
         /\ Transform(PayloadOf[request.of]) # None
BY DEF JiraRequests, Request, FromLog

LEMMA LogRequestIs ==
  ASSUME NEW line \in 1 .. Lines, NEW start \in 1 .. MaxStarts,
         NEW piece \in {"event", "other_app", "refused"}
  PROVE  /\ Request("log", line, start, <<piece>>) \in LogRequests
         /\ Request("log", line, start, <<piece>>).of = line
         /\ Request("log", line, start, <<piece>>).try = start
         /\ Request("log", line, start, <<piece>>).event = <<piece>>
BY DEF LogRequests, Request

\* A commit puts the request after all that is stored.
LEMMA CommitAppends ==
  ASSUME Types, NEW request \in LogRequests \union JiraRequests, Commit(request)
  PROVE  /\ stored' \in Seq(LogRequests \union JiraRequests)
         /\ Len(stored) \in Nat
         /\ DOMAIN stored = 1 .. Len(stored)
         /\ DOMAIN stored' = 1 .. Len(stored) + 1
         /\ \A k \in DOMAIN stored : stored'[k] = stored[k]
         /\ stored'[Len(stored) + 1] = request
BY DEF Types, Commit

\* What the listener makes of a piece of the line after its position.
LEMMA PieceType ==
  ASSUME NEW cut \in Cuts
  PROVE  Beginning(cut) \in Kinds /\ Rest(cut) \in Kinds
BY BoundsAssumption DEF Beginning, Rest, Kinds, Places

LEMMA HandleType ==
  ASSUME NEW line \in 1 .. Lines, NEW piece \in Kinds, starts \in 1 .. MaxStarts,
         listener = "reading", post = None, Handle(line, piece)
  PROVE  /\ listener' \in {"reading", "posting"}
         /\ IF listener' = "posting" THEN post' \in LogRequests ELSE post' = None
         /\ listener' = "posting" => post' = Request("log", line, starts, <<piece>>)
                                       /\ piece # "malformed"
         /\ listener' = "reading" => piece = "malformed"
<1>1. CASE piece = "malformed"
  BY <1>1 DEF Handle
<1>2. CASE piece # "malformed"
  <2>1. piece \in {"event", "other_app", "refused"}
    BY <1>2 DEF Kinds
  <2> QED BY <1>2, <2>1, LogRequestIs DEF Handle
<1> QED BY <1>1, <1>2

-----------------------------------------------------------------------------
(***************************************************************************)
(* Types.                                                                  *)
(***************************************************************************)

LEMMA TypesInit == Init => Types
BY BoundsAssumption DEF Init, Types

LEMMA TypesStep == Types /\ [Next]_vars => Types'
<1> SUFFICES ASSUME Types, [Next]_vars  PROVE Types'
  OBVIOUS
<1> USE BoundsAssumption
<1>1. CASE Flush
  BY <1>1 DEF Flush, tail, jira, Types
<1>2. CASE Start
  BY <1>2 DEF Start, file, jira, Types
<1>3. CASE ReadLine
  <2>1. position + 1 \in 1 .. Lines /\ position + 1 \in 0 .. written /\ starts \in 1 .. MaxStarts
    BY <1>3 DEF ReadLine, Types
  <2> DEFINE piece == IF inside = None THEN "event" ELSE Rest(inside)
  <2>2. piece \in Kinds
    BY PieceType DEF Types, Kinds
  <2>3. Handle(position + 1, piece) /\ listener = "reading" /\ post = None
    BY <1>3 DEF ReadLine, Types
  <2>4. listener' \in {"reading", "posting"}
          /\ IF listener' = "posting" THEN post' \in LogRequests ELSE post' = None
    BY <2>1, <2>2, <2>3, HandleType
  <2> QED BY <1>3, <2>1, <2>4 DEF ReadLine, file, jira, Types
<1>4. CASE ReadTorn
  <2>1. position + 1 \in 1 .. Lines /\ starts \in 1 .. MaxStarts /\ torn \in Cuts
    BY <1>4 DEF ReadTorn, Types
  <2>2. Beginning(torn) \in Kinds
    BY <2>1, PieceType
  <2>3. Handle(position + 1, Beginning(torn)) /\ listener = "reading" /\ post = None
    BY <1>4 DEF ReadTorn, Types
  <2>4. listener' \in {"reading", "posting"}
          /\ IF listener' = "posting" THEN post' \in LogRequests ELSE post' = None
    BY <2>1, <2>2, <2>3, HandleType
  <2> QED BY <1>4, <2>1, <2>4 DEF ReadTorn, file, jira, Types
<1>5. CASE OnResponse
  <2>1. post \in LogRequests
    BY <1>5 DEF OnResponse, Types
  <2>2. stored' \in Seq(LogRequests \union JiraRequests)
    BY <1>5, <2>1, CommitAppends DEF OnResponse, Types
  <2> QED BY <1>5, <2>2 DEF OnResponse, file, jira, Types
<1>6. CASE Stop
  <2>1. abandoned' \subseteq LogRequests \union JiraRequests
    BY <1>6 DEF Stop, Types
  <2> QED BY <1>6, <2>1 DEF Stop, file, jira, Types
<1>7. ASSUME NEW w \in Webhooks, Deliver(w)  PROVE Types'
  <2>1. delivered' \in [Webhooks -> 0 .. MaxDeliveries] /\ delivered'[w] \in 1 .. MaxDeliveries
    BY <1>7 DEF Deliver, Types
  <2>2. handling' \subseteq JiraRequests
    <3>1. Transform(PayloadOf[w]) # None =>
            Request("jira", w, delivered'[w], Transform(PayloadOf[w])) \in JiraRequests
      BY <2>1 DEF JiraRequests
    <3> QED BY <1>7, <3>1 DEF Deliver, Types
  <2> QED BY <1>7, <2>1, <2>2 DEF Deliver, file, tail, Types
<1>8. ASSUME NEW request \in handling, Forward(request)  PROVE Types'
  <2>1. stored' \in Seq(LogRequests \union JiraRequests)
    BY <1>8, CommitAppends DEF Forward, Types
  <2> QED BY <1>8, <2>1 DEF Forward, file, tail, Types
<1>9. ASSUME NEW request \in handling, Raise(request)  PROVE Types'
  <2>1. stored' \in Seq(LogRequests \union JiraRequests)
    BY <1>9, CommitAppends DEF Raise, Types
  <2>2. abandoned' \subseteq LogRequests \union JiraRequests
    BY <1>9 DEF Raise, Types
  <2> QED BY <1>9, <2>1, <2>2 DEF Raise, file, tail, Types
<1>10. ASSUME NEW request \in abandoned, CommitAbandoned(request)  PROVE Types'
  <2>1. stored' \in Seq(LogRequests \union JiraRequests)
    BY <1>10, CommitAppends DEF CommitAbandoned, Types
  <2> QED BY <1>10, <2>1 DEF CommitAbandoned, file, tail, jira, Types
<1>11. CASE UNCHANGED vars
  BY <1>11 DEF vars, file, tail, jira, Types
<1> QED BY <1>1, <1>2, <1>3, <1>4, <1>5, <1>6, <1>7, <1>8, <1>9, <1>10, <1>11 DEF Next

\* The state has its types, and the listener never reads past the file
\* (tail_and_forward, handle).
THEOREM ForwardingTypeCorrect == Spec => []Types
BY TypesInit, TypesStep, PTL DEF Spec

-----------------------------------------------------------------------------
(***************************************************************************)
(* The order of the lines.                                                 *)
(***************************************************************************)

\* Steps that concern only the file and the connector.
LEMMA OtherStep ==
  ASSUME LogInv, UNCHANGED tail,
         \/ UNCHANGED stored
         \/ \E request \in JiraRequests : Commit(request),
         \A a \in abandoned' : FromLog(a) => a \in abandoned
  PROVE  PostsInOrder'
<1> DEFINE Old(k) == k \in DOMAIN stored /\ stored'[k] = stored[k]
<1>1. \A k \in DOMAIN stored' : FromLog(stored'[k]) => Old(k)
  <2>1. CASE UNCHANGED stored
    BY <2>1
  <2>2. ASSUME NEW request \in JiraRequests, Commit(request)
        PROVE \A k \in DOMAIN stored' : FromLog(stored'[k]) => Old(k)
    <3>1. ~FromLog(request)
      BY JiraRequestType
    <3>2. /\ Len(stored) \in Nat /\ DOMAIN stored = 1 .. Len(stored)
          /\ DOMAIN stored' = 1 .. Len(stored) + 1
          /\ \A k \in DOMAIN stored : stored'[k] = stored[k]
          /\ stored'[Len(stored) + 1] = request
      BY <2>2, CommitAppends DEF LogInv
    <3> QED BY <3>1, <3>2
  <2> QED BY <2>1, <2>2
<1>2. UNCHANGED <<listener, starts, position, inside, post>>
  BY DEF tail
<1>3. LinesForwardedOnce'
  BY <1>1 DEF LogInv, PostsInOrder, LinesForwardedOnce, FromLog
<1>4. (\A k \in DOMAIN stored : FromLog(stored[k]) =>
         stored[k].try <= starts /\ (listener # "down" => HasRead(stored[k])))'
  <2> SUFFICES ASSUME NEW k \in DOMAIN stored', FromLog(stored'[k])
               PROVE  stored'[k].try <= starts' /\ (listener' # "down" => HasRead(stored[k])')
    BY DEF FromLog
  <2>1. k \in DOMAIN stored /\ stored'[k] = stored[k]
    BY <1>1
  <2>2. stored[k].try <= starts /\ (listener # "down" => HasRead(stored[k]))
    BY <2>1 DEF LogInv, PostsInOrder
  <2> QED BY <1>2, <2>1, <2>2 DEF HasRead
<1>5. (listener = "posting" =>
         /\ post.try = starts /\ HasRead(post)
         /\ \A k \in DOMAIN stored :
              FromLog(stored[k]) /\ stored[k].try = starts => stored[k].of < post.of)'
  BY <1>1, <1>2 DEF LogInv, PostsInOrder, HasRead, FromLog
<1>6. (\A a \in abandoned : FromLog(a) =>
         /\ a.try <= starts
         /\ a.try = starts => listener = "down"
         /\ \A k \in DOMAIN stored :
              FromLog(stored[k]) /\ stored[k].try = a.try => stored[k].of < a.of
         /\ \A b \in abandoned : FromLog(b) /\ b.try = a.try => a = b)'
  BY <1>1, <1>2 DEF LogInv, PostsInOrder, FromLog
<1> QED BY <1>3, <1>4, <1>5, <1>6 DEF PostsInOrder

LEMMA StartStep ==
  ASSUME LogInv, Start
  PROVE  PostsInOrder'
<1>1. starts \in Nat /\ starts' = starts + 1 /\ listener' = "reading" /\ UNCHANGED <<stored, abandoned>>
  BY BoundsAssumption DEF Start, LogInv, Types
<1>2. \A k \in DOMAIN stored : FromLog(stored[k]) => stored[k].try \in Nat /\ stored[k].try <= starts
  <2> SUFFICES ASSUME NEW k \in DOMAIN stored, FromLog(stored[k])
               PROVE  stored[k].try \in Nat /\ stored[k].try <= starts
    OBVIOUS
  <2>1. stored[k] \in LogRequests \union JiraRequests
    BY DEF LogInv, Types
  <2> QED BY <2>1, LogRequestType, JiraRequestType, BoundsAssumption DEF LogInv, PostsInOrder
<1>3. \A a \in abandoned : FromLog(a) => a.try \in Nat /\ a.try <= starts
  BY LogRequestType, JiraRequestType, BoundsAssumption DEF LogInv, PostsInOrder, Types
<1>4. LinesForwardedOnce'
  BY <1>1 DEF LogInv, PostsInOrder, LinesForwardedOnce
<1>5. (\A k \in DOMAIN stored : FromLog(stored[k]) =>
         stored[k].try <= starts /\ (listener # "down" => HasRead(stored[k])))'
  BY <1>1, <1>2 DEF HasRead, FromLog
<1>6. (\A a \in abandoned : FromLog(a) =>
         /\ a.try <= starts
         /\ a.try = starts => listener = "down"
         /\ \A k \in DOMAIN stored :
              FromLog(stored[k]) /\ stored[k].try = a.try => stored[k].of < a.of
         /\ \A b \in abandoned : FromLog(b) /\ b.try = a.try => a = b)'
  BY <1>1, <1>3 DEF LogInv, PostsInOrder, FromLog
<1> QED BY <1>1, <1>4, <1>5, <1>6 DEF PostsInOrder

\* The listener has read a piece of the line after its position, and handles it.
LEMMA HandleStep ==
  ASSUME LogInv, listener = "reading", NEW piece \in Kinds, Handle(position + 1, piece),
         position + 1 \in 1 .. Lines,
         UNCHANGED <<starts, stored, abandoned>>,
         \/ position' = position + 1
         \/ position' = position /\ inside' \in {"value", "app", "newline"}
         \/ position' = position /\ piece = "malformed" /\ inside \notin {"value", "app", "newline"},
         piece # "malformed" => inside \notin {"value", "app", "newline"}
  PROVE  PostsInOrder'
<1>1. starts \in 1 .. MaxStarts /\ post = None /\ position \in Nat
  BY DEF LogInv, Types
<1>2. /\ listener' \in {"reading", "posting"}
      /\ listener' = "posting" => post' = Request("log", position + 1, starts, <<piece>>)
                                    /\ piece # "malformed"
      /\ listener' = "reading" => piece = "malformed"
  BY <1>1, HandleType
<1>3. LinesForwardedOnce'
  BY DEF LogInv, PostsInOrder, LinesForwardedOnce
<1>4. \A k \in DOMAIN stored : FromLog(stored[k]) =>
        /\ stored[k].of \in Nat /\ stored[k].try <= starts
        /\ HasRead(stored[k])
  <2> SUFFICES ASSUME NEW k \in DOMAIN stored, FromLog(stored[k])
               PROVE  stored[k].of \in Nat /\ stored[k].try <= starts /\ HasRead(stored[k])
    OBVIOUS
  <2>1. stored[k] \in LogRequests \union JiraRequests
    BY DEF LogInv, Types
  <2>2. stored[k].of \in Nat
    BY <2>1, LogRequestType, JiraRequestType, BoundsAssumption
  <2> QED BY <2>2 DEF LogInv, PostsInOrder
<1>5. (\A k \in DOMAIN stored : FromLog(stored[k]) =>
         stored[k].try <= starts /\ (listener # "down" => HasRead(stored[k])))'
  <2> SUFFICES ASSUME NEW k \in DOMAIN stored, FromLog(stored[k])
               PROVE  stored[k].try <= starts /\ HasRead(stored[k])'
    BY DEF FromLog
  <2>1. stored[k].of \in Nat /\ stored[k].try <= starts /\ HasRead(stored[k])
    BY <1>4
  <2>2. ASSUME stored[k].try = starts
        PROVE  stored[k].of <= position' \/ (stored[k].of = position' + 1 /\ inside' \in {"value", "app", "newline"})
    BY <1>1, <2>1, <2>2, BoundsAssumption DEF HasRead
  <2> QED BY <2>1, <2>2 DEF HasRead
<1>6. (listener = "posting" =>
         /\ post.try = starts /\ HasRead(post)
         /\ \A k \in DOMAIN stored :
              FromLog(stored[k]) /\ stored[k].try = starts => stored[k].of < post.of)'
  <2> SUFFICES ASSUME listener' = "posting"
               PROVE  /\ post'.try = starts /\ HasRead(post)'
                      /\ \A k \in DOMAIN stored :
                           FromLog(stored[k]) /\ stored[k].try = starts => stored[k].of < post'.of
    BY DEF FromLog
  <2>1. post' = Request("log", position + 1, starts, <<piece>>) /\ piece # "malformed"
    BY <1>2
  <2>2. post'.try = starts /\ post'.of = position + 1
    BY <2>1 DEF Request
  <2>3. HasRead(post)'
    BY <1>1, <2>1, <2>2 DEF HasRead
  <2>4. ASSUME NEW k \in DOMAIN stored, FromLog(stored[k]), stored[k].try = starts
        PROVE  stored[k].of < position + 1
    <3>1. stored[k].of \in Nat /\ HasRead(stored[k])
      BY <1>4, <2>4
    <3>2. inside \notin {"value", "app", "newline"}
      BY <2>1
    <3> QED BY <1>1, <2>4, <3>1, <3>2 DEF HasRead
  <2> QED BY <2>2, <2>3, <2>4
<1>7. (\A a \in abandoned : FromLog(a) =>
         /\ a.try <= starts
         /\ a.try = starts => listener = "down"
         /\ \A k \in DOMAIN stored :
              FromLog(stored[k]) /\ stored[k].try = a.try => stored[k].of < a.of
         /\ \A b \in abandoned : FromLog(b) /\ b.try = a.try => a = b)'
  BY DEF LogInv, PostsInOrder, FromLog
<1> QED BY <1>3, <1>5, <1>6, <1>7 DEF PostsInOrder

LEMMA ReadLineStep ==
  ASSUME LogInv, ReadLine
  PROVE  PostsInOrder'
<1> DEFINE piece == IF inside = None THEN "event" ELSE Rest(inside)
<1>1. piece \in Kinds
  BY PieceType DEF LogInv, Types, Kinds
<1>2. position + 1 \in 1 .. Lines
  BY BoundsAssumption DEF ReadLine, LogInv, Types
<1>3. piece # "malformed" => inside \notin {"value", "app", "newline"}
  BY BoundsAssumption DEF Rest, Places
<1>4. /\ listener = "reading" /\ Handle(position + 1, piece)
      /\ UNCHANGED <<starts, stored, abandoned>> /\ position' = position + 1
  BY DEF ReadLine
<1> QED BY <1>1, <1>2, <1>3, <1>4, HandleStep

LEMMA ReadTornStep ==
  ASSUME LogInv, ReadTorn
  PROVE  PostsInOrder'
<1>1. torn \in Cuts /\ inside = None /\ inside' = torn
  BY DEF ReadTorn, LogInv, Types
<1>2. Beginning(torn) \in Kinds
  BY <1>1, PieceType
<1>3. position + 1 \in 1 .. Lines
  BY BoundsAssumption DEF ReadTorn, LogInv, Types
<1>4. inside \notin {"value", "app", "newline"}
  BY <1>1, BoundsAssumption DEF Places
<1>5. /\ listener = "reading" /\ Handle(position + 1, Beginning(torn))
      /\ UNCHANGED <<starts, stored, abandoned>> /\ position' = position
  BY DEF ReadTorn
<1>6. Beginning(torn) = "malformed" \/ inside' \in {"value", "app", "newline"}
  BY <1>1, BoundsAssumption DEF Beginning, Places
<1> QED BY <1>2, <1>3, <1>4, <1>5, <1>6, HandleStep

\* A request is committed that comes after all that its run has stored.
LEMMA CommitKeepsOrder ==
  ASSUME LogInv, NEW request \in LogRequests, Commit(request),
         \A k \in DOMAIN stored :
           FromLog(stored[k]) /\ stored[k].try = request.try => stored[k].of < request.of
  PROVE  LinesForwardedOnce'
<1>1. /\ Len(stored) \in Nat
      /\ DOMAIN stored = 1 .. Len(stored)
      /\ DOMAIN stored' = 1 .. Len(stored) + 1
      /\ \A k \in DOMAIN stored : stored'[k] = stored[k]
      /\ stored'[Len(stored) + 1] = request
  BY CommitAppends DEF LogInv
<1> SUFFICES ASSUME NEW i \in DOMAIN stored', NEW j \in DOMAIN stored', i < j,
                    FromLog(stored'[i]), FromLog(stored'[j]), stored'[i].try = stored'[j].try
             PROVE  stored'[i].of < stored'[j].of
  BY DEF LinesForwardedOnce, FromLog
<1>2. i \in DOMAIN stored
  BY <1>1
<1>3. CASE j \in DOMAIN stored
  BY <1>1, <1>2, <1>3 DEF LogInv, PostsInOrder, LinesForwardedOnce, FromLog
<1>4. CASE j = Len(stored) + 1
  BY <1>1, <1>2, <1>4
<1> QED BY <1>1, <1>3, <1>4

LEMMA OnResponseStep ==
  ASSUME LogInv, OnResponse
  PROVE  PostsInOrder'
<1>1. /\ listener = "posting" /\ listener' = "reading" /\ post \in LogRequests
      /\ UNCHANGED <<starts, position, inside, abandoned>>
  BY DEF OnResponse, LogInv, Types
<1>2. /\ post.try = starts /\ HasRead(post)
      /\ \A k \in DOMAIN stored :
           FromLog(stored[k]) /\ stored[k].try = starts => stored[k].of < post.of
  BY <1>1 DEF LogInv, PostsInOrder
<1>3. CASE UNCHANGED stored
  <2>1. LinesForwardedOnce'
    BY <1>3 DEF LogInv, PostsInOrder, LinesForwardedOnce
  <2>2. (\A k \in DOMAIN stored : FromLog(stored[k]) =>
           stored[k].try <= starts /\ (listener # "down" => HasRead(stored[k])))'
    BY <1>1, <1>3 DEF LogInv, PostsInOrder, HasRead, FromLog
  <2>3. (\A a \in abandoned : FromLog(a) =>
           /\ a.try <= starts
           /\ a.try = starts => listener = "down"
           /\ \A k \in DOMAIN stored :
                FromLog(stored[k]) /\ stored[k].try = a.try => stored[k].of < a.of
           /\ \A b \in abandoned : FromLog(b) /\ b.try = a.try => a = b)'
    BY <1>1, <1>3 DEF LogInv, PostsInOrder, FromLog
  <2> QED BY <1>1, <2>1, <2>2, <2>3 DEF PostsInOrder
<1>4. CASE Commit(post)
  <2>1. /\ Len(stored) \in Nat
        /\ DOMAIN stored = 1 .. Len(stored)
        /\ DOMAIN stored' = 1 .. Len(stored) + 1
        /\ \A k \in DOMAIN stored : stored'[k] = stored[k]
        /\ stored'[Len(stored) + 1] = post
    BY <1>1, <1>4, CommitAppends DEF LogInv
  <2>2. LinesForwardedOnce'
    BY <1>1, <1>2, <1>4, CommitKeepsOrder
  <2>3. (\A k \in DOMAIN stored : FromLog(stored[k]) =>
           stored[k].try <= starts /\ (listener # "down" => HasRead(stored[k])))'
    <3> SUFFICES ASSUME NEW k \in DOMAIN stored', FromLog(stored'[k]),
                        NEW request, request = stored'[k]
                 PROVE  request.try <= starts /\ HasRead(request)'
      BY <1>1 DEF FromLog, HasRead
    <3>1. starts \in Nat
      BY BoundsAssumption DEF LogInv, Types
    <3>2. CASE k \in DOMAIN stored
      <4>1. request = stored[k] /\ request.try <= starts /\ HasRead(request)
        BY <1>1, <2>1, <3>2 DEF LogInv, PostsInOrder
      <4> QED BY <1>1, <4>1 DEF HasRead
    <3>3. CASE k = Len(stored) + 1
      <4>1. request = post
        BY <2>1, <3>3
      <4> QED BY <1>1, <1>2, <3>1, <4>1 DEF HasRead
    <3> QED BY <2>1, <3>2, <3>3
  <2>4. (\A a \in abandoned : FromLog(a) =>
           /\ a.try <= starts
           /\ a.try = starts => listener = "down"
           /\ \A k \in DOMAIN stored :
                FromLog(stored[k]) /\ stored[k].try = a.try => stored[k].of < a.of
           /\ \A b \in abandoned : FromLog(b) /\ b.try = a.try => a = b)'
    <3> SUFFICES ASSUME NEW a \in abandoned, FromLog(a)
                 PROVE  /\ a.try <= starts
                        /\ a.try # starts
                        /\ \A k \in DOMAIN stored' :
                             FromLog(stored'[k]) /\ stored'[k].try = a.try => stored'[k].of < a.of
                        /\ \A b \in abandoned : FromLog(b) /\ b.try = a.try => a = b
      BY <1>1 DEF FromLog
    <3>1. /\ a.try <= starts /\ a.try # starts
          /\ \A k \in DOMAIN stored :
               FromLog(stored[k]) /\ stored[k].try = a.try => stored[k].of < a.of
          /\ \A b \in abandoned : FromLog(b) /\ b.try = a.try => a = b
      BY <1>1 DEF LogInv, PostsInOrder
    <3> QED BY <1>2, <2>1, <3>1
  <2> QED BY <1>1, <2>2, <2>3, <2>4 DEF PostsInOrder
<1> QED BY <1>3, <1>4 DEF OnResponse

LEMMA StopStep ==
  ASSUME LogInv, Stop
  PROVE  PostsInOrder'
<1>1. /\ listener' = "down" /\ UNCHANGED <<starts, stored>>
      /\ listener \in {"reading", "posting"}
  BY DEF Stop
<1>2. LinesForwardedOnce'
  BY <1>1 DEF LogInv, PostsInOrder, LinesForwardedOnce
<1>3. \A k \in DOMAIN stored : FromLog(stored[k]) => stored[k].try <= starts
  BY DEF LogInv, PostsInOrder
<1>4. \A a \in abandoned : FromLog(a) =>
        /\ a.try <= starts /\ a.try # starts
        /\ \A k \in DOMAIN stored :
             FromLog(stored[k]) /\ stored[k].try = a.try => stored[k].of < a.of
        /\ \A b \in abandoned : FromLog(b) /\ b.try = a.try => a = b
  BY <1>1 DEF LogInv, PostsInOrder
<1>5. (\A a \in abandoned : FromLog(a) =>
         /\ a.try <= starts
         /\ a.try = starts => listener = "down"
         /\ \A k \in DOMAIN stored :
              FromLog(stored[k]) /\ stored[k].try = a.try => stored[k].of < a.of
         /\ \A b \in abandoned : FromLog(b) /\ b.try = a.try => a = b)'
  <2>1. CASE UNCHANGED abandoned
    BY <1>1, <1>4, <2>1 DEF FromLog
  <2>2. CASE post # None /\ abandoned' = abandoned \union {post}
    <3>1. listener = "posting"
      BY <2>2 DEF LogInv, Types
    <3>2. /\ post.try = starts
          /\ \A k \in DOMAIN stored :
               FromLog(stored[k]) /\ stored[k].try = starts => stored[k].of < post.of
      BY <3>1 DEF LogInv, PostsInOrder
    <3>3. starts \in Nat
      BY BoundsAssumption DEF LogInv, Types
    <3> QED BY <1>1, <1>4, <2>2, <3>2, <3>3 DEF FromLog
  <2> QED BY <2>1, <2>2 DEF Stop
<1> QED BY <1>1, <1>2, <1>3, <1>5 DEF PostsInOrder, FromLog

\* The engine commits what a run that has ended left behind, or drops it.
LEMMA AbandonedStep ==
  ASSUME LogInv, NEW request \in abandoned, request \in LogRequests, CommitAbandoned(request)
  PROVE  PostsInOrder'
<1>1. UNCHANGED <<listener, starts, position, inside, post>> /\ abandoned' = abandoned \ {request}
  BY DEF CommitAbandoned, tail
<1>2. CASE UNCHANGED stored
  BY <1>1, <1>2, OtherStep DEF CommitAbandoned
<1>3. CASE Commit(request)
  <2>1. /\ Len(stored) \in Nat
        /\ DOMAIN stored = 1 .. Len(stored)
        /\ DOMAIN stored' = 1 .. Len(stored) + 1
        /\ \A k \in DOMAIN stored : stored'[k] = stored[k]
        /\ stored'[Len(stored) + 1] = request
    BY <1>3, CommitAppends DEF LogInv
  <2>2. /\ FromLog(request) /\ request.try <= starts
        /\ request.try = starts => listener = "down"
        /\ \A k \in DOMAIN stored :
             FromLog(stored[k]) /\ stored[k].try = request.try => stored[k].of < request.of
        /\ \A b \in abandoned : FromLog(b) /\ b.try = request.try => request = b
    BY LogRequestType DEF LogInv, PostsInOrder
  <2>3. LinesForwardedOnce'
    BY <1>3, <2>2, CommitKeepsOrder
  <2>4. (\A k \in DOMAIN stored : FromLog(stored[k]) =>
           stored[k].try <= starts /\ (listener # "down" => HasRead(stored[k])))'
    <3> SUFFICES ASSUME NEW k \in DOMAIN stored', FromLog(stored'[k]),
                        NEW r, r = stored'[k]
                 PROVE  r.try <= starts /\ (listener # "down" => HasRead(r)')
      BY <1>1 DEF FromLog, HasRead
    <3>1. CASE k \in DOMAIN stored
      <4>1. r = stored[k] /\ r.try <= starts /\ (listener # "down" => HasRead(r))
        BY <2>1, <3>1 DEF LogInv, PostsInOrder
      <4> QED BY <1>1, <4>1 DEF HasRead
    <3>2. CASE k = Len(stored) + 1
      <4>1. r = request
        BY <2>1, <3>2
      <4>2. listener # "down" => r.try # starts
        BY <2>2, <4>1
      <4> QED BY <1>1, <2>2, <4>1, <4>2 DEF HasRead
    <3> QED BY <2>1, <3>1, <3>2
  <2>5. (listener = "posting" =>
           /\ post.try = starts /\ HasRead(post)
           /\ \A k \in DOMAIN stored :
                FromLog(stored[k]) /\ stored[k].try = starts => stored[k].of < post.of)'
    <3> SUFFICES ASSUME listener = "posting"
                 PROVE  /\ post.try = starts /\ HasRead(post)'
                        /\ \A k \in DOMAIN stored' :
                             FromLog(stored'[k]) /\ stored'[k].try = starts => stored'[k].of < post.of
      BY <1>1 DEF FromLog
    <3>1. /\ post.try = starts /\ HasRead(post)
          /\ \A k \in DOMAIN stored :
               FromLog(stored[k]) /\ stored[k].try = starts => stored[k].of < post.of
      BY DEF LogInv, PostsInOrder
    <3>2. HasRead(post)'
      BY <1>1, <3>1 DEF HasRead
    <3>3. request.try # starts
      BY <2>2
    <3> QED BY <2>1, <3>1, <3>2, <3>3
  <2>6. (\A a \in abandoned : FromLog(a) =>
           /\ a.try <= starts
           /\ a.try = starts => listener = "down"
           /\ \A k \in DOMAIN stored :
                FromLog(stored[k]) /\ stored[k].try = a.try => stored[k].of < a.of
           /\ \A b \in abandoned : FromLog(b) /\ b.try = a.try => a = b)'
    <3> SUFFICES ASSUME NEW a \in abandoned', FromLog(a)
                 PROVE  /\ a.try <= starts
                        /\ a.try = starts => listener = "down"
                        /\ \A k \in DOMAIN stored' :
                             FromLog(stored'[k]) /\ stored'[k].try = a.try => stored'[k].of < a.of
                        /\ \A b \in abandoned' : FromLog(b) /\ b.try = a.try => a = b
      BY <1>1 DEF FromLog
    <3>1. a \in abandoned /\ a # request
      BY <1>1
    <3>2. /\ a.try <= starts
          /\ a.try = starts => listener = "down"
          /\ \A k \in DOMAIN stored :
               FromLog(stored[k]) /\ stored[k].try = a.try => stored[k].of < a.of
          /\ \A b \in abandoned : FromLog(b) /\ b.try = a.try => a = b
      BY <3>1 DEF LogInv, PostsInOrder
    <3>3. a.try # request.try
      BY <2>2, <3>1
    <3> QED BY <1>1, <2>1, <3>2, <3>3
  <2> QED BY <2>3, <2>4, <2>5, <2>6 DEF PostsInOrder
<1> QED BY <1>2, <1>3 DEF CommitAbandoned

LEMMA OrderStep == LogInv /\ [Next]_vars => LogInv'
<1> SUFFICES ASSUME LogInv, [Next]_vars  PROVE PostsInOrder'
  BY TypesStep DEF LogInv
<1>1. CASE Flush
  BY <1>1, OtherStep DEF Flush
<1>2. CASE Start
  BY <1>2, StartStep
<1>3. CASE ReadLine
  BY <1>3, ReadLineStep
<1>4. CASE ReadTorn
  BY <1>4, ReadTornStep
<1>5. CASE OnResponse
  BY <1>5, OnResponseStep
<1>6. CASE Stop
  BY <1>6, StopStep
<1>7. ASSUME NEW w \in Webhooks, Deliver(w)  PROVE PostsInOrder'
  BY <1>7, OtherStep DEF Deliver
<1>8. ASSUME NEW request \in handling, Forward(request) \/ Raise(request)  PROVE PostsInOrder'
  <2>1. request \in JiraRequests /\ ~FromLog(request)
    BY JiraRequestType DEF LogInv, Types
  <2>2. UNCHANGED tail /\ (Commit(request) \/ UNCHANGED stored)
    BY <1>8 DEF Forward, Raise
  <2>3. abandoned' = abandoned \/ abandoned' = abandoned \union {request}
    BY <1>8 DEF Forward, Raise
  <2> QED BY <2>1, <2>2, <2>3, OtherStep
<1>9. ASSUME NEW request \in abandoned, CommitAbandoned(request)  PROVE PostsInOrder'
  <2>1. CASE request \in LogRequests
    BY <1>9, <2>1, AbandonedStep
  <2>2. CASE request \in JiraRequests
    BY <1>9, <2>2, OtherStep DEF CommitAbandoned
  <2> QED BY <2>1, <2>2 DEF LogInv, Types
<1>10. CASE UNCHANGED vars
  BY <1>10, OtherStep DEF vars
<1> QED BY <1>1, <1>2, <1>3, <1>4, <1>5, <1>6, <1>7, <1>8, <1>9, <1>10 DEF Next

LEMMA OrderInvariant == Spec => []LogInv
<1>1. Init => LogInv
  <2>1. Init => PostsInOrder
    BY DEF Init, PostsInOrder, LinesForwardedOnce
  <2> QED BY <2>1, TypesInit DEF LogInv
<1> QED BY <1>1, OrderStep, PTL DEF Spec

\* However the file is cut, requests fail or outlive the listener: between two
\* starts no line is forwarded twice or out of order (tail_and_forward).
THEOREM LinesAreForwardedOnce == Spec => []LinesForwardedOnce
<1>1. LogInv => LinesForwardedOnce
  BY DEF LogInv, PostsInOrder
<1> QED BY <1>1, OrderInvariant, PTL

-----------------------------------------------------------------------------
(***************************************************************************)
(* No line is lost without a word.                                         *)
(***************************************************************************)

Accounted(line) ==
  \/ <<starts, line>> \in malformed
  \/ \E request \in Committed \union printed \union {post} :
       request # None /\ request.source = "log" /\ request.of = line /\ request.try = starts

LEMMA AccountedStep == LogInv /\ LinesAccounted /\ [Next]_vars => LinesAccounted'
<1> SUFFICES ASSUME LogInv, LinesAccounted, [Next]_vars, listener' # "down",
                    NEW line \in (first + 1 .. position)'
             PROVE  Accounted(line)'
  BY DEF LinesAccounted, Accounted
<1>1. listener # "down" =>
        \A l \in first + 1 .. position : Accounted(l)
  BY DEF LinesAccounted, Accounted
<1>2. Committed \subseteq Committed'
  <2>1. CASE UNCHANGED stored
    BY <2>1 DEF Committed
  <2>2. ASSUME NEW request \in LogRequests \union JiraRequests, Commit(request)
        PROVE  Committed \subseteq Committed'
    <3>1. /\ Len(stored) \in Nat
          /\ DOMAIN stored = 1 .. Len(stored)
          /\ DOMAIN stored' = 1 .. Len(stored) + 1
          /\ \A k \in DOMAIN stored : stored'[k] = stored[k]
      BY <2>2, CommitAppends DEF LogInv
    <3> QED BY <3>1 DEF Committed
  <2>3. OnResponse => UNCHANGED stored \/ (post \in LogRequests /\ Commit(post))
    BY DEF OnResponse, LogInv, Types
  <2>4. \A request \in handling \union abandoned : request \in LogRequests \union JiraRequests
    BY DEF LogInv, Types
  <2> QED BY <2>1, <2>2, <2>3, <2>4
          DEF Next, Flush, Start, ReadLine, ReadTorn, Stop, Deliver, Forward, Raise,
              CommitAbandoned, vars
<1>3. CASE UNCHANGED tail
  <2>1. line \in first + 1 .. position /\ listener # "down"
    BY <1>3 DEF tail
  <2>2. Accounted(line)
    BY <1>1, <2>1
  <2> QED BY <1>2, <1>3, <2>2 DEF Accounted, tail
<1>4. CASE Start
  <2>1. first' = position' /\ position' \in Nat
    BY <1>4, BoundsAssumption DEF Start, LogInv, Types
  <2>2. \A n \in Nat : n + 1 .. n = {}
    OBVIOUS
  <2>3. first' + 1 .. position' = {}
    BY <2>1, <2>2
  <2> QED BY <2>3
<1>5. CASE ReadLine
  <2> DEFINE piece == IF inside = None THEN "event" ELSE Rest(inside)
  <2>1. /\ listener = "reading" /\ post = None /\ starts \in 1 .. MaxStarts
        /\ position \in Nat /\ first \in Nat /\ position + 1 \in 1 .. Lines
    BY <1>5, BoundsAssumption DEF ReadLine, LogInv, Types
  <2>2. /\ Handle(position + 1, piece) /\ position' = position + 1
        /\ UNCHANGED <<starts, first, printed, stored>>
    BY <1>5 DEF ReadLine
  <2>3. piece \in Kinds
    BY PieceType DEF LogInv, Types, Kinds
  <2>4. malformed \subseteq malformed'
    BY <2>2 DEF Handle
  <2>5. CASE line = position + 1
    <3>1. CASE piece = "malformed"
      BY <2>2, <2>5, <3>1 DEF Handle, Accounted
    <3>2. CASE piece # "malformed"
      <4>1. piece \in {"event", "other_app", "refused"}
        BY <2>3, <3>2 DEF Kinds
      <4>2. post' = Request("log", position + 1, starts, <<piece>>)
        BY <2>2, <3>2 DEF Handle
      <4>3. post' \in LogRequests /\ post'.of = line /\ post'.try = starts' /\ post'.source = "log"
        BY <2>1, <2>2, <2>5, <4>1, <4>2, LogRequestIs, LogRequestType DEF FromLog
      <4>4. post' # None
        BY <4>3, BoundsAssumption
      <4> QED BY <4>3, <4>4 DEF Accounted
    <3> QED BY <3>1, <3>2
  <2>6. CASE line # position + 1
    <3>1. line \in first + 1 .. position
      BY <2>1, <2>2, <2>6
    <3>2. Accounted(line)
      BY <1>1, <2>1, <3>1
    <3> QED BY <1>2, <2>1, <2>2, <2>4, <3>2 DEF Accounted
  <2> QED BY <2>5, <2>6
<1>6. CASE ReadTorn
  <2>1. /\ listener = "reading" /\ post = None
        /\ UNCHANGED <<starts, first, position, printed, stored>>
    BY <1>6 DEF ReadTorn, LogInv, Types
  <2>2. malformed \subseteq malformed'
    BY <1>6 DEF ReadTorn, Handle
  <2>3. Accounted(line)
    BY <1>1, <2>1
  <2> QED BY <1>2, <2>1, <2>2, <2>3 DEF Accounted
<1>7. CASE OnResponse
  <2>1. /\ listener = "posting" /\ post \in LogRequests
        /\ UNCHANGED <<starts, first, position, malformed>>
    BY <1>7 DEF OnResponse, LogInv, Types
  <2>2. Accounted(line)
    BY <1>1, <2>1
  <2>3. printed \subseteq printed'
    BY <1>7 DEF OnResponse
  <2>4. post \in Committed' \/ post \in printed'
    <3>1. CASE Commit(post)
      <4>1. /\ Len(stored) \in Nat /\ DOMAIN stored' = 1 .. Len(stored) + 1
            /\ stored'[Len(stored) + 1] = post
        BY <2>1, <3>1, CommitAppends DEF LogInv
      <4> QED BY <4>1 DEF Committed
    <3>2. CASE post \in printed'
      BY <3>2
    <3> QED BY <1>7, <3>1, <3>2 DEF OnResponse
  <2> QED BY <1>2, <2>1, <2>2, <2>3, <2>4 DEF Accounted
<1>8. CASE Stop
  BY <1>8 DEF Stop
<1> QED BY <1>3, <1>4, <1>5, <1>6, <1>7, <1>8
        DEF Next, Flush, Deliver, Forward, Raise, CommitAbandoned, vars

\* Of the lines that the running listener has passed, each is in the graph, or
\* was printed or dropped, or is being posted (_handle_line, _post_event).
THEOREM LinesAreAccounted == Spec => []LinesAccounted
<1>1. Init => LinesAccounted
  BY DEF Init, LinesAccounted
<1> QED BY <1>1, AccountedStep, OrderInvariant, PTL DEF Spec

-----------------------------------------------------------------------------
(***************************************************************************)
(* What the connector answers.                                             *)
(***************************************************************************)

FromJira(requests) == {request \in requests : ~FromLog(request)}

Answers == Webhooks \X Nat \X {"forwarded", "ignored", "error"}

\* A delivery is one request, which is at one place: in a handler, left behind
\* or committed, once.  What is answered follows from it.
DeliveriesApart ==
  /\ handling \intersect abandoned = {}
  /\ FromJira(handling \union abandoned) \intersect Committed = {}
  /\ \A request \in FromJira(handling \union abandoned \union Committed) :
       request.try <= delivered[request.of]
  /\ \A i, j \in DOMAIN stored : stored[i] = stored[j] /\ ~FromLog(stored[i]) => i = j
  /\ replies \subseteq Answers
  /\ \A reply \in replies :
       /\ reply[3] = "forwarded" =>
            Request("jira", reply[1], reply[2], Transform(PayloadOf[reply[1]])) \in Committed
       /\ reply[3] = "ignored" => Transform(PayloadOf[reply[1]]) = None

JiraInv == Types /\ DeliveriesApart

LEMMA CommittedType == Types => Committed \subseteq LogRequests \union JiraRequests
BY DEF Types, Committed

\* A commit of what was not committed before.
LEMMA CommitOnce ==
  ASSUME JiraInv, NEW request \in LogRequests \union JiraRequests, Commit(request),
         FromLog(request) \/ request \notin Committed
  PROVE  /\ Committed' = Committed \union {request}
         /\ \A i, j \in DOMAIN stored' : stored'[i] = stored'[j] /\ ~FromLog(stored'[i]) => i = j
<1>1. /\ Len(stored) \in Nat
      /\ DOMAIN stored = 1 .. Len(stored)
      /\ DOMAIN stored' = 1 .. Len(stored) + 1
      /\ \A k \in DOMAIN stored : stored'[k] = stored[k]
      /\ stored'[Len(stored) + 1] = request
  BY CommitAppends DEF JiraInv
<1>2. Committed' = Committed \union {request}
  <2>1. Committed' \subseteq Committed \union {request}
    BY <1>1 DEF Committed
  <2>2. Committed \union {request} \subseteq Committed'
    BY <1>1 DEF Committed
  <2> QED BY <2>1, <2>2
<1>3. \A k \in DOMAIN stored : ~FromLog(request) => stored[k] # request
  BY DEF Committed
<1>4. ASSUME NEW i \in DOMAIN stored', NEW j \in DOMAIN stored',
             stored'[i] = stored'[j], ~FromLog(stored'[i])
      PROVE  i = j
  <2>1. CASE i \in DOMAIN stored /\ j \in DOMAIN stored
    BY <1>1, <1>4, <2>1 DEF JiraInv, DeliveriesApart
  <2>2. CASE i = Len(stored) + 1 /\ j = Len(stored) + 1
    BY <2>2
  <2>3. CASE i \in DOMAIN stored /\ j = Len(stored) + 1
    BY <1>1, <1>3, <1>4, <2>3
  <2>4. CASE i = Len(stored) + 1 /\ j \in DOMAIN stored
    BY <1>1, <1>3, <1>4, <2>4
  <2> QED BY <1>1, <2>1, <2>2, <2>3, <2>4
<1> QED BY <1>2, <1>4

\* Steps of the listener and of the file.
LEMMA ListenerStep ==
  ASSUME JiraInv, UNCHANGED jira,
         \/ UNCHANGED stored
         \/ \E request \in LogRequests : Commit(request),
         FromJira(abandoned') = FromJira(abandoned)
  PROVE  DeliveriesApart'
<1>1. /\ \A i, j \in DOMAIN stored' : stored'[i] = stored'[j] /\ ~FromLog(stored'[i]) => i = j
      /\ Committed \subseteq Committed'
      /\ FromJira(Committed') = FromJira(Committed)
  <2>1. CASE UNCHANGED stored
    BY <2>1 DEF Committed, JiraInv, DeliveriesApart
  <2>2. ASSUME NEW request \in LogRequests, Commit(request)
        PROVE  /\ \A i, j \in DOMAIN stored' : stored'[i] = stored'[j] /\ ~FromLog(stored'[i]) => i = j
               /\ Committed' = Committed \union {request} /\ FromLog(request)
    BY <2>2, CommitOnce, LogRequestType
  <2> QED BY <2>1, <2>2 DEF FromJira
<1>2. UNCHANGED <<handling, delivered, replies>>
  BY DEF jira
<1>3. \A request \in handling : ~FromLog(request)
  BY JiraRequestType DEF JiraInv, Types
<1>4. (handling \intersect abandoned = {})'
  BY <1>2, <1>3 DEF JiraInv, DeliveriesApart, FromJira
<1>5. (FromJira(handling \union abandoned) \intersect Committed = {})'
  BY <1>1, <1>2 DEF JiraInv, DeliveriesApart, FromJira, FromLog
<1>6. (\A request \in FromJira(handling \union abandoned \union Committed) :
         request.try <= delivered[request.of])'
  BY <1>1, <1>2 DEF JiraInv, DeliveriesApart, FromJira, FromLog
<1>7. (\A reply \in replies :
         /\ reply[3] = "forwarded" =>
              Request("jira", reply[1], reply[2], Transform(PayloadOf[reply[1]])) \in Committed
         /\ reply[3] = "ignored" => Transform(PayloadOf[reply[1]]) = None)'
  BY <1>1, <1>2 DEF JiraInv, DeliveriesApart
<1> QED BY <1>1, <1>2, <1>4, <1>5, <1>6, <1>7 DEF DeliveriesApart, FromLog, JiraInv, Answers

LEMMA DeliverStep ==
  ASSUME JiraInv, NEW w \in Webhooks, Deliver(w)
  PROVE  DeliveriesApart'
<1> DEFINE new == Request("jira", w, delivered'[w], Transform(PayloadOf[w]))
<1>1. /\ delivered' = [delivered EXCEPT ![w] = delivered[w] + 1]
      /\ delivered[w] < MaxDeliveries /\ UNCHANGED <<stored, abandoned>>
  BY DEF Deliver
<1>2. delivered \in [Webhooks -> 0 .. MaxDeliveries] /\ delivered[w] \in Nat
      /\ delivered'[w] = delivered[w] + 1 /\ MaxDeliveries \in Nat
  BY <1>1, BoundsAssumption DEF JiraInv, Types
<1>3. \A v \in Webhooks : delivered[v] \in Nat /\ delivered'[v] \in Nat /\ delivered[v] <= delivered'[v]
  BY <1>1, <1>2
<1>4. Committed' = Committed
  BY <1>1 DEF Committed
<1>5. \/ handling' = handling
      \/ handling' = handling \union {new} /\ new \in JiraRequests
  <2>1. delivered'[w] \in 1 .. MaxDeliveries
    BY <1>1, <1>2
  <2>2. Transform(PayloadOf[w]) # None => new \in JiraRequests
    BY <2>1 DEF JiraRequests
  <2> QED BY <2>2 DEF Deliver
<1>6. new.try = delivered[w] + 1 /\ new.of = w
  BY <1>2 DEF Request
<1>7. \A request \in FromJira(handling \union abandoned \union Committed) :
        request.of \in Webhooks /\ request.try \in Nat /\ request.try <= delivered[request.of]
  <2> SUFFICES ASSUME NEW request \in FromJira(handling \union abandoned \union Committed)
               PROVE  request.of \in Webhooks /\ request.try \in Nat
    BY DEF JiraInv, DeliveriesApart
  <2>1. request \in LogRequests \union JiraRequests /\ ~FromLog(request)
    BY CommittedType DEF FromJira, JiraInv, Types
  <2> QED BY <2>1, LogRequestType, JiraRequestType, BoundsAssumption
<1>8. ~FromLog(new)
  BY DEF Request, FromLog
<1>9. new \notin handling \union abandoned \union Committed
  BY <1>2, <1>6, <1>7, <1>8 DEF FromJira
<1>10. (handling \intersect abandoned = {})'
  BY <1>1, <1>5, <1>9 DEF JiraInv, DeliveriesApart
<1>11. (FromJira(handling \union abandoned) \intersect Committed = {})'
  BY <1>1, <1>4, <1>5, <1>9 DEF JiraInv, DeliveriesApart, FromJira, FromLog
<1>12. (\A request \in FromJira(handling \union abandoned \union Committed) :
         request.try <= delivered[request.of])'
  <2> SUFFICES ASSUME NEW request \in FromJira(handling' \union abandoned \union Committed)
               PROVE  request.try <= delivered'[request.of]
    BY <1>1, <1>4 DEF FromJira, FromLog
  <2>1. CASE request = new
    <3>1. request.try = delivered[w] + 1 /\ request.of = w
      BY <1>6, <2>1
    <3> QED BY <1>2, <3>1
  <2>2. CASE request \in FromJira(handling \union abandoned \union Committed)
    BY <1>3, <1>7, <2>2
  <2> QED BY <1>5, <2>1, <2>2 DEF FromJira
<1>13. /\ replies' \subseteq Answers
       /\ \A reply \in replies' :
            /\ reply[3] = "forwarded" =>
                 Request("jira", reply[1], reply[2], Transform(PayloadOf[reply[1]])) \in Committed
            /\ reply[3] = "ignored" => Transform(PayloadOf[reply[1]]) = None
  <2>1. CASE Transform(PayloadOf[w]) = None
    <3>1. replies' = replies \union {<<w, delivered'[w], "ignored">>}
      BY <2>1 DEF Deliver
    <3> QED BY <1>3, <2>1, <3>1 DEF JiraInv, DeliveriesApart, Answers
  <2>2. CASE Transform(PayloadOf[w]) # None
    <3>1. replies' = replies
      BY <2>2 DEF Deliver
    <3> QED BY <3>1 DEF JiraInv, DeliveriesApart
  <2> QED BY <2>1, <2>2
<1>14. (\A i, j \in DOMAIN stored : stored[i] = stored[j] /\ ~FromLog(stored[i]) => i = j)'
  BY <1>1 DEF JiraInv, DeliveriesApart, FromLog
<1> QED BY <1>4, <1>10, <1>11, <1>12, <1>13, <1>14 DEF DeliveriesApart, Answers

\* A request of a handler, or one left behind, ends or changes its place.
LEMMA EndStep ==
  ASSUME JiraInv, NEW request \in JiraRequests, request \in handling \union abandoned,
         UNCHANGED delivered,
         handling' = handling \ {request},
         \/ abandoned' = abandoned \ {request} /\ (Commit(request) \/ UNCHANGED stored)
         \/ abandoned' = abandoned \union {request} /\ request \in handling /\ UNCHANGED stored,
         \/ replies' = replies
         \/ replies' = replies \union {<<request.of, request.try, "error">>}
         \/ replies' = replies \union {<<request.of, request.try, "forwarded">>} /\ Commit(request)
  PROVE  DeliveriesApart'
<1>1. /\ ~FromLog(request) /\ request.of \in Webhooks /\ request.try \in Nat
      /\ request = Request("jira", request.of, request.try, Transform(PayloadOf[request.of]))
  BY JiraRequestType, BoundsAssumption DEF JiraRequests, Request
<1>2. request \notin Committed /\ request.try <= delivered[request.of]
  BY <1>1 DEF JiraInv, DeliveriesApart, FromJira
<1>3. /\ Committed' = Committed \/ (Committed' = Committed \union {request} /\ Commit(request))
      /\ \A i, j \in DOMAIN stored' : stored'[i] = stored'[j] /\ ~FromLog(stored'[i]) => i = j
      /\ Commit(request) => Committed' = Committed \union {request}
  <2>1. CASE Commit(request)
    BY <1>2, <2>1, CommitOnce
  <2>2. CASE UNCHANGED stored /\ ~Commit(request)
    BY <2>2 DEF Committed, JiraInv, DeliveriesApart
  <2> QED BY <2>1, <2>2
<1>4. Commit(request) => abandoned' = abandoned \ {request}
  <2>1. Commit(request) => stored' # stored
    <3> SUFFICES ASSUME Commit(request)  PROVE stored' # stored
      OBVIOUS
    <3>1. Committed' # Committed
      BY <1>2, <1>3
    <3> QED BY <3>1 DEF Committed
  <2> QED BY <2>1
<1>5. (handling \intersect abandoned = {})'
  BY DEF JiraInv, DeliveriesApart
<1>6. (FromJira(handling \union abandoned) \intersect Committed = {})'
  <2>1. CASE Committed' = Committed
    BY <2>1 DEF JiraInv, DeliveriesApart, FromJira, FromLog
  <2>2. CASE Committed' = Committed \union {request} /\ Commit(request)
    BY <1>4, <2>2 DEF JiraInv, DeliveriesApart, FromJira, FromLog
  <2> QED BY <1>3, <2>1, <2>2
<1>7. (\A r \in FromJira(handling \union abandoned \union Committed) :
         r.try <= delivered[r.of])'
  <2> SUFFICES ASSUME NEW r \in FromJira(handling' \union abandoned' \union Committed')
               PROVE  r.try <= delivered[r.of]
    BY DEF FromJira, FromLog
  <2>1. r \in FromJira(handling \union abandoned \union Committed)
    BY <1>1, <1>3 DEF FromJira
  <2> QED BY <2>1 DEF JiraInv, DeliveriesApart
<1>8. /\ replies' \subseteq Answers
      /\ \A reply \in replies' :
           /\ reply[3] = "forwarded" =>
                Request("jira", reply[1], reply[2], Transform(PayloadOf[reply[1]])) \in Committed'
           /\ reply[3] = "ignored" => Transform(PayloadOf[reply[1]]) = None
  <2>1. replies' \subseteq Answers
    BY <1>1 DEF JiraInv, DeliveriesApart, Answers
  <2>2. \A reply \in replies :
           /\ reply[3] = "forwarded" =>
                Request("jira", reply[1], reply[2], Transform(PayloadOf[reply[1]])) \in Committed'
           /\ reply[3] = "ignored" => Transform(PayloadOf[reply[1]]) = None
    BY <1>3 DEF JiraInv, DeliveriesApart
  <2>3. CASE replies' = replies
    BY <2>1, <2>2, <2>3
  <2>4. CASE replies' = replies \union {<<request.of, request.try, "error">>}
    BY <2>1, <2>2, <2>4
  <2>5. CASE replies' = replies \union {<<request.of, request.try, "forwarded">>} /\ Commit(request)
    <3>1. request \in Committed'
      BY <1>3, <2>5
    <3> QED BY <1>1, <2>1, <2>2, <2>5, <3>1
  <2> QED BY <2>3, <2>4, <2>5
<1> QED BY <1>3, <1>5, <1>6, <1>7, <1>8 DEF DeliveriesApart, FromLog, Answers

LEMMA RepliesStep == JiraInv /\ [Next]_vars => JiraInv'
<1> SUFFICES ASSUME JiraInv, [Next]_vars  PROVE DeliveriesApart'
  BY TypesStep DEF JiraInv
<1>1. CASE Flush \/ Start \/ ReadLine \/ ReadTorn
  BY <1>1, ListenerStep DEF Flush, Start, ReadLine, ReadTorn
<1>2. CASE OnResponse
  <2>1. post \in LogRequests
    BY <1>2 DEF OnResponse, JiraInv, Types
  <2> QED BY <1>2, <2>1, ListenerStep DEF OnResponse
<1>3. CASE Stop
  <2>1. post # None => post \in LogRequests /\ FromLog(post)
    BY LogRequestType DEF JiraInv, Types
  <2>2. FromJira(abandoned') = FromJira(abandoned)
    BY <1>3, <2>1 DEF Stop, FromJira
  <2> QED BY <1>3, <2>2, ListenerStep DEF Stop
<1>4. ASSUME NEW w \in Webhooks, Deliver(w)  PROVE DeliveriesApart'
  BY <1>4, DeliverStep
<1>5. ASSUME NEW request \in handling, Forward(request)  PROVE DeliveriesApart'
  <2>1. request \in JiraRequests /\ request \notin abandoned
    BY DEF JiraInv, DeliveriesApart, Types
  <2>2. abandoned' = abandoned \ {request} /\ UNCHANGED delivered
    BY <1>5, <2>1 DEF Forward
  <2> QED BY <1>5, <2>1, <2>2, EndStep DEF Forward
<1>6. ASSUME NEW request \in handling, Raise(request)  PROVE DeliveriesApart'
  <2>1. request \in JiraRequests /\ request \notin abandoned
    BY DEF JiraInv, DeliveriesApart, Types
  <2>2. \/ abandoned' = abandoned \ {request} /\ (Commit(request) \/ UNCHANGED stored)
        \/ abandoned' = abandoned \union {request} /\ UNCHANGED stored
    BY <1>6, <2>1 DEF Raise
  <2> QED BY <1>6, <2>1, <2>2, EndStep DEF Raise
<1>7. ASSUME NEW request \in abandoned, CommitAbandoned(request)  PROVE DeliveriesApart'
  <2>1. abandoned' = abandoned \ {request} /\ UNCHANGED jira
        /\ (Commit(request) \/ UNCHANGED stored)
    BY <1>7 DEF CommitAbandoned
  <2>2. CASE request \in LogRequests
    <3>1. FromLog(request)
      BY <2>2, LogRequestType
    <3>2. FromJira(abandoned') = FromJira(abandoned)
      BY <2>1, <3>1 DEF FromJira
    <3> QED BY <2>1, <2>2, <3>2, ListenerStep
  <2>3. CASE request \in JiraRequests
    <3>1. request \notin handling
      BY DEF JiraInv, DeliveriesApart
    <3>2. handling' = handling \ {request} /\ UNCHANGED <<delivered, replies>>
      BY <2>1, <3>1 DEF jira
    <3> QED BY <2>1, <2>3, <3>2, EndStep
  <2> QED BY <2>2, <2>3 DEF JiraInv, Types
<1>8. CASE UNCHANGED vars
  BY <1>8, ListenerStep DEF vars
<1> QED BY <1>1, <1>2, <1>3, <1>4, <1>5, <1>6, <1>7, <1>8 DEF Next

LEMMA InvGivesReplies == JiraInv => RepliesAreTrue
<1> SUFFICES ASSUME JiraInv, NEW reply \in replies,
                    NEW copies,
                    copies = {k \in DOMAIN stored : stored[k].source = "jira"
                                /\ stored[k].of = reply[1] /\ stored[k].try = reply[2]}
             PROVE  /\ Cardinality(copies) <= 1
                    /\ reply[3] = "forwarded" =>
                         \E k \in copies : stored[k].event = Transform(PayloadOf[reply[1]])
                    /\ reply[3] = "ignored" =>
                         \A request \in Committed :
                           ~ (request.source = "jira" /\ request.of = reply[1])
  BY DEF RepliesAreTrue
<1> DEFINE r == Request("jira", reply[1], reply[2], Transform(PayloadOf[reply[1]]))
<1>1. \A k \in DOMAIN stored : stored[k] \in LogRequests \union JiraRequests
  BY DEF JiraInv, Types
<1>2. \A k \in copies : stored[k] = r /\ ~FromLog(stored[k])
  <2> SUFFICES ASSUME NEW k \in copies  PROVE stored[k] = r /\ ~FromLog(stored[k])
    OBVIOUS
  <2>1. stored[k].source = "jira" /\ stored[k].of = reply[1] /\ stored[k].try = reply[2]
    OBVIOUS
  <2>2. stored[k] \in JiraRequests
    BY <1>1, <2>1, LogRequestType DEF FromLog
  <2>3. PICK w \in Webhooks, n \in 1 .. MaxDeliveries :
           stored[k] = Request("jira", w, n, Transform(PayloadOf[w]))
    BY <2>2 DEF JiraRequests
  <2>4. w = reply[1] /\ n = reply[2]
    BY <2>1, <2>3 DEF Request
  <2> QED BY <2>2, <2>3, <2>4, JiraRequestType
<1>3. \A i, j \in copies : i = j
  BY <1>2 DEF JiraInv, DeliveriesApart
<1>4. Cardinality(copies) <= 1
  <2>1. CASE copies = {}
    BY <2>1, FS_EmptySet
  <2>2. CASE copies # {}
    <3>1. PICK k \in copies : TRUE
      BY <2>2
    <3>2. copies = {k}
      BY <1>3, <3>1
    <3> QED BY <3>2, FS_Singleton
  <2> QED BY <2>1, <2>2
<1>5. ASSUME reply[3] = "forwarded"
      PROVE  \E k \in copies : stored[k].event = Transform(PayloadOf[reply[1]])
  <2>1. r \in Committed
    BY <1>5 DEF JiraInv, DeliveriesApart
  <2>2. PICK k \in DOMAIN stored : stored[k] = r
    BY <2>1 DEF Committed
  <2>3. stored[k].source = "jira" /\ stored[k].of = reply[1] /\ stored[k].try = reply[2]
          /\ stored[k].event = Transform(PayloadOf[reply[1]])
    BY <2>2 DEF Request
  <2> QED BY <2>3
<1>6. ASSUME reply[3] = "ignored", NEW request \in Committed,
             request.source = "jira", request.of = reply[1]
      PROVE  FALSE
  <2>1. Transform(PayloadOf[reply[1]]) = None
    BY <1>6 DEF JiraInv, DeliveriesApart
  <2>2. request \in JiraRequests
    BY <1>6, CommittedType, LogRequestType DEF JiraInv, FromLog
  <2> QED BY <1>6, <2>1, <2>2, JiraRequestType
<1> QED BY <1>4, <1>5, <1>6

\* Whatever is delivered again, fails or is answered late: what the connector
\* calls forwarded is stored, each delivery at most once, and nothing that it
\* calls ignored (handle).
THEOREM ConnectorRepliesAreTrue == Spec => []RepliesAreTrue
<1>1. Init => JiraInv
  <2>1. Init => DeliveriesApart
    BY DEF Init, DeliveriesApart, Committed, FromJira
  <2> QED BY <2>1, TypesInit DEF JiraInv
<1> QED BY <1>1, RepliesStep, InvGivesReplies, PTL DEF Spec

=============================================================================
