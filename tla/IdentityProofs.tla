---------------------------- MODULE IdentityProofs ----------------------------
(***************************************************************************)
(* Theorems about Identity, for any users, applications and events.        *)
(***************************************************************************)
EXTENDS Identity, FiniteSetTheorems, TLAPS

-----------------------------------------------------------------------------
(***************************************************************************)
(* Types, and what holds of every producer.                                *)
(***************************************************************************)

LEMMA NativeType == \A u \in Users : NativeOf[u] \in CanonicalIds /\ NativeOf[u] # NoId
BY IdentityAssumption DEF CanonicalIds, NativeIds

LEMMA DeclaredType == \A e \in Events : DeclaredOf[e] \in CanonicalIds \union {NoId}
BY DEF CanonicalIds

\* The canonical id of a link is never null.
LEMMA LinkType ==
  ASSUME TypeOK, NEW a \in Users, NEW b \in Users
  PROVE  \E id \in CanonicalIds :
           /\ id # NoId
           /\ LinkCanonical(a, b) = [canonical EXCEPT ![a] = id, ![b] = id]
           /\ id = canonical[a] \/ (canonical[a] = NoId /\ id = canonical[b])
                \/ (canonical[a] = NoId /\ canonical[b] = NoId /\ id = NativeOf[a])
<1>1. PICK id : id = Coalesce(canonical[a], Coalesce(canonical[b], NativeOf[a]))
  OBVIOUS
<1>2. LinkCanonical(a, b) = [canonical EXCEPT ![a] = id, ![b] = id]
  BY <1>1 DEF LinkCanonical
<1>3. canonical[a] \in CanonicalIds \union {NoId} /\ canonical[b] \in CanonicalIds \union {NoId}
  BY DEF TypeOK
<1>4. /\ id \in CanonicalIds /\ id # NoId
      /\ id = canonical[a] \/ (canonical[a] = NoId /\ id = canonical[b])
           \/ (canonical[a] = NoId /\ canonical[b] = NoId /\ id = NativeOf[a])
  BY <1>1, <1>3, NativeType DEF Coalesce
<1> QED BY <1>2, <1>4

QueryType == [stage : Stages, user : NativeIds \union {NoId},
              resolved : CanonicalIds \union {NoId}, times : [Events -> 0..2],
              had : SUBSET Events, knew : SUBSET (Users \X Users)]

LEMMA IdleType == Idle \in QueryType
BY DEF Idle, QueryType, Stages

LEMMA TypeInit == Init => TypeOK
BY IdleType DEF Init, TypeOK, QueryType

LEMMA TypeStep == TypeOK /\ [Next]_vars => TypeOK'
<1> SUFFICES ASSUME TypeOK, [Next]_vars  PROVE TypeOK'
  OBVIOUS
<1>1. ASSUME NEW e \in Events, WriteEvent(e)  PROVE TypeOK'
  <2>1. ActorOf[e] \in Users
    BY IdentityAssumption
  <2>2. CanonicalAfter(e) \in CanonicalIds \union {NoId}
    BY <2>1, DeclaredType DEF CanonicalAfter, Coalesce, TypeOK
  <2> QED BY <1>1, <2>1, <2>2 DEF WriteEvent, TypeOK
<1>2. ASSUME NEW a \in Users, NEW b \in Users, AttemptLink(a, b)  PROVE TypeOK'
  <2>1. CASE {a, b} \subseteq present
    <3>1. PICK id \in CanonicalIds : LinkCanonical(a, b) = [canonical EXCEPT ![a] = id, ![b] = id]
      BY LinkType
    <3>2. canonical' = [canonical EXCEPT ![a] = id, ![b] = id]
      BY <1>2, <2>1, <3>1 DEF AttemptLink
    <3>3. samePerson' = samePerson \union {<<a, b>>} /\ UNCHANGED <<present, performed, query>>
      BY <1>2, <2>1 DEF AttemptLink
    <3>4. canonical' \in [Users -> CanonicalIds \union {NoId}]
      BY <3>2 DEF TypeOK
    <3> QED BY <2>1, <3>3, <3>4 DEF TypeOK
  <2>2. CASE ~({a, b} \subseteq present)
    BY <1>2, <2>2 DEF AttemptLink, TypeOK
  <2> QED BY <2>1, <2>2
<1>3. ASSUME NEW id \in NativeIds, ReadHistory(id)  PROVE TypeOK'
  <2>1. query' \in QueryType
    <3>1. query' = [stage |-> "history", user |-> id, resolved |-> NoId,
                    times |-> [e \in Events |-> IF e \in UserHistory(id) THEN 1 ELSE 0],
                    had |-> performed, knew |-> samePerson]
      BY <1>3 DEF ReadHistory, Idle
    <3>2. samePerson \subseteq Users \X Users /\ performed \subseteq Events
      BY DEF TypeOK
    <3>3. [e \in Events |-> IF e \in UserHistory(id) THEN 1 ELSE 0] \in [Events -> 0..2]
      OBVIOUS
    <3>4. "history" \in Stages
      BY DEF Stages
    <3> QED BY <3>1, <3>2, <3>3, <3>4 DEF QueryType
  <2> QED BY <1>3, <2>1 DEF ReadHistory, graphVars, TypeOK, QueryType
<1>4. CASE ReadCanonical
  <2>1. PICK id \in ResolvedTo(query.user) :
          query' = [query EXCEPT !.resolved = id,
                                 !.stage = IF id = NoId THEN "done" ELSE "canonical"]
    BY <1>4 DEF ReadCanonical
  <2>2. id \in CanonicalIds \union {NoId}
    BY DEF ResolvedTo, TypeOK
  <2> QED BY <1>4, <2>1, <2>2 DEF ReadCanonical, graphVars, TypeOK, Stages
<1>5. CASE ReadCrossApp
  <2>1. query.times \in [Events -> 0..2]
    BY DEF TypeOK
  <2>2. [e \in Events |-> query.times[e] + (IF e \in CrossAppHistory(query.resolved) THEN Extra(e) ELSE 0)]
          \in [Events -> 0..2]
    BY <2>1 DEF Extra
  <2>3. query' \in QueryType
    BY <1>5, <2>2 DEF ReadCrossApp, TypeOK, QueryType, Stages
  <2> QED BY <1>5, <2>3 DEF ReadCrossApp, graphVars, TypeOK, QueryType
<1>6. CASE Predict
  BY <1>6, IdleType DEF Predict, graphVars, TypeOK, QueryType
<1>7. CASE UNCHANGED vars
  BY <1>7 DEF vars, graphVars, TypeOK
<1> QED BY <1>1, <1>2, <1>3, <1>4, <1>5, <1>6, <1>7 DEF Next

\* Every variable keeps its type: in particular canonical ids are null, declared
\* or native ids, and links are between nodes that exist (LINK_IDENTITIES).
THEOREM IdentityTypeCorrect == Spec => []TypeOK
BY TypeInit, TypeStep, PTL DEF Spec

\* However events and links fall between the three reads, an event is in the
\* history once (_collect_history).
THEOREM EventsAreCountedOnce == Spec => []CountedOnce
<1>1. Init => CountedOnce
  BY DEF Init, Idle, CountedOnce
<1>2. TypeOK /\ CountedOnce /\ [Next]_vars => CountedOnce'
  <2> SUFFICES ASSUME TypeOK, CountedOnce, [Next]_vars  PROVE CountedOnce'
    OBVIOUS
  <2>1. CASE UNCHANGED query
    BY <2>1 DEF CountedOnce
  <2>2. ASSUME NEW id \in NativeIds, ReadHistory(id)  PROVE CountedOnce'
    BY <2>2 DEF ReadHistory, Idle, CountedOnce
  <2>3. CASE ReadCanonical
    <3>1. query'.times = query.times
      BY <2>3 DEF ReadCanonical, TypeOK
    <3> QED BY <3>1 DEF CountedOnce
  <2>4. CASE ReadCrossApp
    <3>1. query'.times = [e \in Events |->
             query.times[e] + (IF e \in CrossAppHistory(query.resolved) THEN Extra(e) ELSE 0)]
      BY <2>4 DEF ReadCrossApp, TypeOK
    <3>2. query.times \in [Events -> 0..2]
      BY DEF TypeOK
    <3> QED BY <3>1, <3>2 DEF CountedOnce, Extra
  <2>5. CASE Predict
    BY <2>5 DEF Predict, Idle, CountedOnce
  <2> QED BY <2>1, <2>2, <2>3, <2>4, <2>5 DEF Next, WriteEvent, AttemptLink, vars
<1> QED BY <1>1, <1>2, IdentityTypeCorrect, PTL DEF Spec

\* No event and no link ever takes a user's canonical id away (WRITE_EVENT,
\* LINK_IDENTITIES).
THEOREM ResolvedStayResolved == Spec => StaysResolved
<1> DEFINE A == \A u \in Users : canonical[u] # NoId => canonical'[u] # NoId
<1>1. TypeOK /\ [Next]_vars => A
  <2> SUFFICES ASSUME TypeOK, [Next]_vars, NEW u \in Users, canonical[u] # NoId
               PROVE  canonical'[u] # NoId
    OBVIOUS
  <2>1. ASSUME NEW e \in Events, WriteEvent(e)  PROVE canonical'[u] # NoId
    BY <2>1 DEF WriteEvent, CanonicalAfter, Coalesce, TypeOK
  <2>2. ASSUME NEW a \in Users, NEW b \in Users, AttemptLink(a, b)  PROVE canonical'[u] # NoId
    <3>1. PICK id \in CanonicalIds :
             id # NoId /\ LinkCanonical(a, b) = [canonical EXCEPT ![a] = id, ![b] = id]
      BY LinkType
    <3> QED BY <2>2, <3>1 DEF AttemptLink, TypeOK
  <2>3. CASE UNCHANGED canonical
    BY <2>3
  <2> QED BY <2>1, <2>2, <2>3 DEF Next, ReadHistory, ReadCanonical, ReadCrossApp, Predict, vars, graphVars
<1>2. Spec => [][A]_vars
  BY <1>1, IdentityTypeCorrect, PTL DEF Spec
<1> QED BY <1>2 DEF StaysResolved

-----------------------------------------------------------------------------
(***************************************************************************)
(* Histories of one person.                                                *)
(***************************************************************************)

Same(u, v) == u = v \/ Matches(u, v)

LEMMA SameIsEquivalence ==
  ASSUME NEW u \in Users, NEW v \in Users, NEW w \in Users, Same(u, v)
  PROVE  Same(v, u) /\ (Same(v, w) => Same(u, w))
BY DEF Same, Matches

\* u is the person, or one of the person's users, whose nativeUserId is id.
OfPerson(u, id) == \E v \in Users : NativeOf[v] = id /\ Same(u, v)

\* Persons do not share a nativeUserId.
LEMMA OnePerson ==
  ASSUME PersonsDiffer, NEW u \in Users, NEW v \in Users, NEW id, OfPerson(u, id), OfPerson(v, id)
  PROVE  Same(u, v)
<1>1. PICK p \in Users : NativeOf[p] = id /\ Same(u, p)
  BY DEF OfPerson
<1>2. PICK q \in Users : NativeOf[q] = id /\ Same(v, q)
  BY DEF OfPerson
<1>3. Same(p, q)
  BY <1>1, <1>2 DEF PersonsDiffer, Same
<1>4. Same(u, q) /\ Same(q, v)
  BY <1>1, <1>2, <1>3, SameIsEquivalence
<1> QED BY <1>4, SameIsEquivalence

LEMMA SameOfPerson ==
  ASSUME NEW u \in Users, NEW v \in Users, NEW id, Same(u, v), OfPerson(v, id)
  PROVE  OfPerson(u, id)
BY SameIsEquivalence DEF OfPerson

\* The canonical id of a user is the nativeUserId of one of its person's users,
\* what the query has collected is its user's person's, and whom it resolved
\* its user to is that person.
PersonInv ==
  /\ \A u \in Users : canonical[u] # NoId => OfPerson(u, canonical[u])
  /\ \A e \in Events : query.times[e] > 0 => OfPerson(ActorOf[e], query.user)
  /\ query.stage = "canonical" =>
       /\ query.resolved # NoId
       /\ \A u \in Users : OfPerson(u, query.resolved) => OfPerson(u, query.user)

LEMMA PersonInit == Init => PersonInv
BY DEF Init, Idle, PersonInv

LEMMA PersonStep == NoneDeclared /\ PersonsDiffer /\ TypeOK /\ PersonInv /\ [Next]_vars => PersonInv'
<1> SUFFICES ASSUME NoneDeclared, PersonsDiffer, TypeOK, PersonInv, [Next]_vars  PROVE PersonInv'
  OBVIOUS
<1>1. ASSUME NEW e \in Events, WriteEvent(e)  PROVE PersonInv'
  <2>1. CanonicalAfter(e) = canonical[ActorOf[e]]
    BY DEF CanonicalAfter, Coalesce, NoneDeclared
  <2>2. canonical' = canonical /\ query' = query
    BY <1>1, <2>1 DEF WriteEvent, TypeOK
  <2> QED BY <2>2 DEF PersonInv
<1>2. ASSUME NEW a \in Users, NEW b \in Users, AttemptLink(a, b)  PROVE PersonInv'
  <2>1. CASE canonical' = canonical
    BY <1>2, <2>1 DEF AttemptLink, PersonInv
  <2>2. CASE canonical' # canonical
    <3>1. PICK id \in CanonicalIds :
            /\ id # NoId
            /\ LinkCanonical(a, b) = [canonical EXCEPT ![a] = id, ![b] = id]
            /\ id = canonical[a] \/ (canonical[a] = NoId /\ id = canonical[b])
                 \/ (canonical[a] = NoId /\ canonical[b] = NoId /\ id = NativeOf[a])
      BY LinkType
    <3>2. canonical' = [canonical EXCEPT ![a] = id, ![b] = id]
      BY <1>2, <2>2, <3>1 DEF AttemptLink
    <3>3. Same(a, b) /\ Same(b, a) /\ Same(a, a)
      BY <1>2 DEF AttemptLink, Same, Matches
    <3>4. OfPerson(a, id) \/ OfPerson(b, id)
      <4>1. CASE id = NativeOf[a]
        BY <3>3, <4>1 DEF OfPerson
      <4>2. CASE id = canonical[a] \/ id = canonical[b]
        BY <3>1, <4>2 DEF PersonInv
      <4> QED BY <3>1, <4>1, <4>2
    <3>5. OfPerson(a, id) /\ OfPerson(b, id)
      BY <3>3, <3>4, SameOfPerson
    <3>6. \A u \in Users : canonical'[u] # NoId => OfPerson(u, canonical'[u])
      BY <3>2, <3>5 DEF PersonInv, TypeOK
    <3>7. query' = query
      BY <1>2 DEF AttemptLink
    <3> QED BY <3>6, <3>7 DEF PersonInv
  <2> QED BY <2>1, <2>2
<1>3. ASSUME NEW id \in NativeIds, ReadHistory(id)  PROVE PersonInv'
  <2>1. canonical' = canonical /\ query'.stage = "history" /\ query'.user = id
        /\ query'.times = [e \in Events |-> IF e \in UserHistory(id) THEN 1 ELSE 0]
    BY <1>3 DEF ReadHistory, Idle, graphVars
  <2>2. \A e \in UserHistory(id) : e \in Events => OfPerson(ActorOf[e], id)
    BY IdentityAssumption DEF UserHistory, OfPerson, Same
  <2> QED BY <2>1, <2>2 DEF PersonInv
<1>4. CASE ReadCanonical
  <2>1. PICK id \in ResolvedTo(query.user) :
          query' = [query EXCEPT !.resolved = id,
                                 !.stage = IF id = NoId THEN "done" ELSE "canonical"]
    BY <1>4 DEF ReadCanonical
  <2>2. /\ query'.resolved = id /\ query'.user = query.user /\ query'.times = query.times
        /\ query'.stage = "canonical" => id # NoId
    BY <2>1 DEF TypeOK
  <2>3. ASSUME id # NoId, NEW u \in Users, OfPerson(u, id)  PROVE OfPerson(u, query.user)
    <3>1. PICK v \in Users : v \in present /\ NativeOf[v] = query.user /\ canonical[v] = id
      BY <2>3 DEF ResolvedTo, TypeOK
    <3>2. OfPerson(v, id)
      BY <2>3, <3>1 DEF PersonInv
    <3>3. Same(u, v)
      BY <2>3, <3>2, OnePerson
    <3> QED BY <3>1, <3>3 DEF OfPerson
  <2>4. canonical' = canonical
    BY <1>4 DEF ReadCanonical, graphVars
  <2> QED BY <2>2, <2>3, <2>4 DEF PersonInv
<1>5. CASE ReadCrossApp
  <2>1. /\ canonical' = canonical /\ query.stage = "canonical" /\ query'.stage = "done"
        /\ query'.user = query.user
        /\ query'.times = [e \in Events |->
             query.times[e] + (IF e \in CrossAppHistory(query.resolved) THEN Extra(e) ELSE 0)]
    BY <1>5 DEF ReadCrossApp, graphVars, TypeOK
  <2>2. ASSUME NEW e \in Events, query'.times[e] > 0  PROVE OfPerson(ActorOf[e], query.user)
    <3>1. CASE e \in CrossAppHistory(query.resolved)
      <4>1. ActorOf[e] \in Users /\ canonical[ActorOf[e]] = query.resolved
        BY <3>1, IdentityAssumption DEF CrossAppHistory
      <4> QED BY <2>1, <4>1 DEF PersonInv
    <3>2. CASE e \notin CrossAppHistory(query.resolved)
      <4>1. query.times \in [Events -> 0..2]
        BY DEF TypeOK
      <4>2. query'.times[e] = query.times[e]
        BY <2>1, <3>2, <4>1
      <4> QED BY <2>2, <4>2 DEF PersonInv
    <3> QED BY <3>1, <3>2
  <2> QED BY <2>1, <2>2 DEF PersonInv
<1>6. CASE Predict
  BY <1>6 DEF Predict, Idle, graphVars, PersonInv
<1>7. CASE UNCHANGED vars
  BY <1>7 DEF vars, graphVars, PersonInv
<1> QED BY <1>1, <1>2, <1>3, <1>4, <1>5, <1>6, <1>7 DEF Next

\* All events of a history are one person's: links and reads in any order never
\* bring another person's events in (_match_method, _collect_history).
THEOREM HistoriesAreOnePersons ==
  ASSUME NoneDeclared, PersonsDiffer  PROVE Spec => []HistoryIsOnePerson
<1>1. PersonInv => HistoryIsOnePerson
  <2> SUFFICES ASSUME PersonInv, NEW e \in Events, NEW f \in Events,
                      query.times[e] > 0, query.times[f] > 0
               PROVE  Same(ActorOf[e], ActorOf[f])
    BY DEF HistoryIsOnePerson, Same
  <2>1. ActorOf[e] \in Users /\ ActorOf[f] \in Users
    BY IdentityAssumption
  <2> QED BY <2>1, OnePerson DEF PersonInv
<1>2. TypeOK /\ PersonInv /\ [Next]_vars => PersonInv'
  BY PersonStep
<1> QED BY <1>1, <1>2, PersonInit, IdentityTypeCorrect, PTL DEF Spec

\* Two users have one canonical id only if they are one person's.
THEOREM CanonicalIdsAreOnePersons ==
  ASSUME NoneDeclared, PersonsDiffer  PROVE Spec => []CanonicalIsOnePerson
<1>1. TypeOK /\ PersonInv => CanonicalIsOnePerson
  <2> SUFFICES ASSUME TypeOK, PersonInv, NEW u \in present, NEW v \in present,
                      canonical[u] = canonical[v], canonical[u] # NoId
               PROVE  Same(u, v)
    BY DEF CanonicalIsOnePerson, Same
  <2>1. u \in Users /\ v \in Users
    BY DEF TypeOK
  <2>2. OfPerson(u, canonical[u]) /\ OfPerson(v, canonical[u])
    BY <2>1 DEF PersonInv
  <2> QED BY <2>1, <2>2, OnePerson
<1>2. TypeOK /\ PersonInv /\ [Next]_vars => PersonInv'
  BY PersonStep
<1> QED BY <1>1, <1>2, PersonInit, IdentityTypeCorrect, PTL DEF Spec

-----------------------------------------------------------------------------
(***************************************************************************)
(* Links, for persons of at most three identities.                         *)
(***************************************************************************)

\* The identities of a, of which at most three are of one person.
LEMMA NoFour ==
  ASSUME FewIdentities, IsFiniteSet(Users), NEW a \in Users, NEW b \in Users,
         NEW c \in Users, NEW d \in Users,
         Matches(a, b), Matches(a, c), Matches(a, d)
  PROVE  a = b \/ a = c \/ a = d \/ b = c \/ b = d \/ c = d
<1> SUFFICES ASSUME a # b, a # c, a # d, b # c, b # d, c # d  PROVE FALSE
  OBVIOUS
<1> DEFINE S == {v \in Users : Matches(a, v)}
<1>1. Matches(a, a)
  BY DEF Matches
<1>2. IsFiniteSet(S) /\ Cardinality(S) <= 3
  BY FS_Subset DEF FewIdentities
<1>3. {a, b, c, d} \subseteq S
  BY <1>1
<1>4. IsFiniteSet({a, b, c, d}) /\ Cardinality({a, b, c, d}) <= Cardinality(S)
  BY <1>2, <1>3, FS_Subset
<1>5. Cardinality({a, b, c, d}) = 4
  <2>1. IsFiniteSet({}) /\ Cardinality({}) = 0
    BY FS_EmptySet
  <2>2. IsFiniteSet({a}) /\ Cardinality({a}) = 1
    BY FS_Singleton
  <2>3. {a, b} = {a} \union {b} /\ b \notin {a}
    OBVIOUS
  <2>4. IsFiniteSet({a, b}) /\ Cardinality({a, b}) = 2
    <3>1. IsFiniteSet({a} \union {b}) /\ Cardinality({a} \union {b}) = 1 + 1
      BY ONLY <2>2, <2>3, FS_AddElement
    <3> QED BY <2>3, <3>1
  <2>5. {a, b, c} = {a, b} \union {c} /\ c \notin {a, b}
    OBVIOUS
  <2>6. IsFiniteSet({a, b, c}) /\ Cardinality({a, b, c}) = 3
    <3>1. IsFiniteSet({a, b} \union {c}) /\ Cardinality({a, b} \union {c}) = 2 + 1
      BY ONLY <2>4, <2>5, FS_AddElement
    <3> QED BY <2>5, <3>1
  <2>7. {a, b, c, d} = {a, b, c} \union {d} /\ d \notin {a, b, c}
    OBVIOUS
  <2>8. Cardinality({a, b, c} \union {d}) = 3 + 1
    BY ONLY <2>6, <2>7, FS_AddElement
  <2> QED BY <2>7, <2>8
<1>6. Cardinality(S) \in Nat
  BY <1>2, FS_CardinalityType
<1> QED BY <1>2, <1>4, <1>5, <1>6

\* A person's resolved users have one canonical id; none is the only one; and
\* links are between them.
LinkInv ==
  /\ \A u, v \in Users :
       Matches(u, v) /\ canonical[u] # NoId /\ canonical[v] # NoId => canonical[u] = canonical[v]
  /\ \A u \in Users :
       canonical[u] # NoId => \E v \in Users : v # u /\ Matches(u, v) /\ canonical[v] # NoId
  /\ \A u, v \in Users :
       <<u, v>> \in samePerson => Matches(u, v) /\ canonical[u] # NoId /\ canonical[v] # NoId

LinkHypotheses == NoneDeclared /\ FewIdentities /\ IsFiniteSet(Users)

\* The canonical id of a link is that of every resolved user of the person.
LEMMA LinkKeeps ==
  ASSUME LinkHypotheses, TypeOK, LinkInv, NEW a \in Users, NEW b \in Users, a # b,
         Matches(a, b), NEW id \in CanonicalIds, id # NoId,
         id = canonical[a] \/ (canonical[a] = NoId /\ id = canonical[b])
           \/ (canonical[a] = NoId /\ canonical[b] = NoId /\ id = NativeOf[a]),
         NEW c \in Users, c = b \/ Matches(a, c), canonical[c] # NoId
  PROVE  canonical[c] = id
<1>1. Matches(a, c) /\ Matches(b, c) /\ Matches(a, a)
  BY DEF Matches
<1>2. CASE id = canonical[a] \/ id = canonical[b]
  BY <1>1, <1>2 DEF LinkInv
<1>3. CASE canonical[a] = NoId /\ canonical[b] = NoId
  <2>1. PICK d \in Users : d # c /\ Matches(c, d) /\ canonical[d] # NoId
    BY DEF LinkInv
  <2>2. Matches(a, d)
    BY <1>1, <2>1 DEF Matches
  <2> QED BY <1>1, <1>3, <2>1, <2>2, NoFour DEF LinkHypotheses
<1> QED BY <1>2, <1>3

\* Once resolved, a user keeps its canonical id.
LEMMA CanonicalKept ==
  LinkHypotheses /\ TypeOK /\ LinkInv /\ [Next]_vars =>
    \A u \in Users : canonical[u] # NoId => canonical'[u] = canonical[u]
<1> SUFFICES ASSUME LinkHypotheses, TypeOK, LinkInv, [Next]_vars, NEW u \in Users, canonical[u] # NoId
             PROVE  canonical'[u] = canonical[u]
  OBVIOUS
<1>1. ASSUME NEW e \in Events, WriteEvent(e)  PROVE canonical'[u] = canonical[u]
  <2>1. CanonicalAfter(e) = canonical[ActorOf[e]]
    BY DEF CanonicalAfter, Coalesce, NoneDeclared, LinkHypotheses
  <2> QED BY <1>1, <2>1 DEF WriteEvent, TypeOK
<1>2. ASSUME NEW a \in Users, NEW b \in Users, a # b, AttemptLink(a, b)
      PROVE  canonical'[u] = canonical[u]
  <2>1. PICK id \in CanonicalIds :
          /\ id # NoId
          /\ LinkCanonical(a, b) = [canonical EXCEPT ![a] = id, ![b] = id]
          /\ id = canonical[a] \/ (canonical[a] = NoId /\ id = canonical[b])
               \/ (canonical[a] = NoId /\ canonical[b] = NoId /\ id = NativeOf[a])
    BY LinkType
  <2>2. canonical' = canonical \/ canonical' = [canonical EXCEPT ![a] = id, ![b] = id]
    BY <1>2, <2>1 DEF AttemptLink
  <2>3. Matches(a, b) /\ Matches(a, a)
    BY <1>2 DEF AttemptLink, Matches
  <2>4. u \in {a, b} => canonical[u] = id
    BY <1>2, <2>1, <2>3, LinkKeeps
  <2> QED BY <2>2, <2>4 DEF TypeOK
<1> QED BY <1>1, <1>2 DEF Next, ReadHistory, ReadCanonical, ReadCrossApp, Predict, vars, graphVars

LEMMA LinkStep == LinkHypotheses /\ TypeOK /\ LinkInv /\ [Next]_vars => LinkInv'
<1> SUFFICES ASSUME LinkHypotheses, TypeOK, LinkInv, [Next]_vars  PROVE LinkInv'
  OBVIOUS
<1>1. ASSUME NEW e \in Events, WriteEvent(e)  PROVE LinkInv'
  <2>1. CanonicalAfter(e) = canonical[ActorOf[e]]
    BY DEF CanonicalAfter, Coalesce, NoneDeclared, LinkHypotheses
  <2>2. canonical' = canonical /\ samePerson' = samePerson
    BY <1>1, <2>1 DEF WriteEvent, TypeOK
  <2> QED BY <2>2 DEF LinkInv
<1>2. ASSUME NEW a \in Users, NEW b \in Users, a # b, AttemptLink(a, b)  PROVE LinkInv'
  <2>1. CASE {a, b} \subseteq present
    <3>1. PICK id \in CanonicalIds :
            /\ id # NoId
            /\ LinkCanonical(a, b) = [canonical EXCEPT ![a] = id, ![b] = id]
            /\ id = canonical[a] \/ (canonical[a] = NoId /\ id = canonical[b])
                 \/ (canonical[a] = NoId /\ canonical[b] = NoId /\ id = NativeOf[a])
      BY LinkType
    <3>2. /\ Matches(a, b) /\ Matches(b, a) /\ Matches(a, a) /\ Matches(b, b)
          /\ samePerson' = samePerson \union {<<a, b>>}
          /\ canonical' = [canonical EXCEPT ![a] = id, ![b] = id]
      BY <1>2, <2>1, <3>1 DEF AttemptLink, Matches
    <3>3. /\ canonical'[a] = id /\ canonical'[b] = id
          /\ \A c \in Users : c # a /\ c # b => canonical'[c] = canonical[c]
      BY <3>2 DEF TypeOK
    <3>4. ASSUME NEW c \in Users, Matches(a, c), canonical'[c] # NoId
          PROVE  canonical'[c] = id
      <4>1. CASE c # a /\ c # b
        <5>1. canonical[c] # NoId /\ canonical'[c] = canonical[c]
          BY <3>3, <3>4, <4>1
        <5>2. canonical[c] = id
          BY <1>2, <3>1, <3>2, <3>4, <5>1, LinkKeeps
        <5> QED BY <5>1, <5>2
      <4> QED BY <3>3, <4>1
    <3>5. ASSUME NEW u \in Users, NEW v \in Users, Matches(u, v), canonical'[u] # NoId, canonical'[v] # NoId
          PROVE  canonical'[u] = canonical'[v]
      <4>1. CASE u \in {a, b} \/ v \in {a, b}
        <5>1. Matches(a, u) /\ Matches(a, v)
          BY <3>2, <3>5, <4>1 DEF Matches
        <5> QED BY <3>4, <3>5, <5>1
      <4>2. CASE u \notin {a, b} /\ v \notin {a, b}
        BY <3>3, <3>5, <4>2 DEF LinkInv
      <4> QED BY <4>1, <4>2
    <3>6. ASSUME NEW u \in Users, canonical'[u] # NoId
          PROVE  \E v \in Users : v # u /\ Matches(u, v) /\ canonical'[v] # NoId
      <4>1. CASE u = a
        <5>1. b # u /\ Matches(u, b) /\ canonical'[b] # NoId
          BY <1>2, <3>1, <3>2, <3>3, <4>1
        <5> QED BY <5>1
      <4>2. CASE u = b
        <5>1. a # u /\ Matches(u, a) /\ canonical'[a] # NoId
          BY <1>2, <3>1, <3>2, <3>3, <4>2
        <5> QED BY <5>1
      <4>3. CASE u # a /\ u # b
        <5>1. PICK v \in Users : v # u /\ Matches(u, v) /\ canonical[v] # NoId
          BY <3>3, <3>6, <4>3 DEF LinkInv
        <5>2. canonical'[v] # NoId
          BY <3>1, <3>3, <5>1
        <5> QED BY <5>1, <5>2
      <4> QED BY <4>1, <4>2, <4>3
    <3>7. ASSUME NEW u \in Users, NEW v \in Users, <<u, v>> \in samePerson'
          PROVE  Matches(u, v) /\ canonical'[u] # NoId /\ canonical'[v] # NoId
      <4>1. CASE <<u, v>> \in samePerson
        <5>1. Matches(u, v) /\ canonical[u] # NoId /\ canonical[v] # NoId
          BY <4>1 DEF LinkInv
        <5> QED BY <3>1, <3>3, <5>1
      <4>2. CASE u = a /\ v = b
        BY <3>1, <3>2, <3>3, <4>2
      <4> QED BY <3>2, <3>7, <4>1, <4>2
    <3> QED BY <3>5, <3>6, <3>7 DEF LinkInv
  <2>2. CASE ~({a, b} \subseteq present)
    BY <1>2, <2>2 DEF AttemptLink, LinkInv
  <2> QED BY <2>1, <2>2
<1>3. CASE UNCHANGED <<canonical, samePerson>>
  BY <1>3 DEF LinkInv
<1> QED BY <1>1, <1>2, <1>3 DEF Next, ReadHistory, ReadCanonical, ReadCrossApp, Predict, vars, graphVars

LEMMA LinkInvariant == ASSUME LinkHypotheses  PROVE Spec => []LinkInv
<1>1. Init => LinkInv
  BY DEF Init, LinkInv
<1>2. TypeOK /\ LinkInv /\ [Next]_vars => LinkInv'
  BY LinkStep
<1> QED BY <1>1, <1>2, IdentityTypeCorrect, PTL DEF Spec

\* For persons of at most three identities, linked nodes always share their
\* canonical id (LINK_IDENTITIES): the case that IdentityFourApps refutes is
\* the smallest.
THEOREM LinksShareCanonical ==
  ASSUME NoneDeclared, FewIdentities, IsFiniteSet(Users)  PROVE Spec => []LinkedShareCanonical
<1>1. TypeOK /\ LinkInv => LinkedShareCanonical
  <2> SUFFICES ASSUME TypeOK, LinkInv, NEW pair \in samePerson
               PROVE  canonical[pair[1]] = canonical[pair[2]] /\ canonical[pair[1]] # NoId
    BY DEF LinkedShareCanonical
  <2>1. PICK u \in Users, v \in Users : pair = <<u, v>>
    BY DEF TypeOK
  <2> QED BY <2>1 DEF LinkInv
<1>2. LinkHypotheses
  BY DEF LinkHypotheses
<1>3. Spec => []LinkInv
  BY <1>2, LinkInvariant
<1> QED BY <1>1, <1>3, IdentityTypeCorrect, PTL

-----------------------------------------------------------------------------
(***************************************************************************)
(* Complete histories.                                                     *)
(***************************************************************************)

\* What the query has collected at each of its stages, of the events that its
\* user, and the users linked to it, had when it began.
QueryInv ==
  /\ query.had \subseteq performed
  /\ query.knew \subseteq samePerson
  /\ query.stage = "history" =>
       \A e \in query.had : NativeOf[ActorOf[e]] = query.user => query.times[e] >= 1
  /\ query.stage = "canonical" =>
       /\ query.resolved # NoId
       /\ \A e \in query.had : WasKnown(ActorOf[e]) =>
            query.times[e] >= 1 \/ canonical[ActorOf[e]] = query.resolved
  /\ HistoryIsComplete

\* Writers leave what was collected, and what is still to be found.
LEMMA WritersKeep ==
  ASSUME TypeOK, QueryInv, UNCHANGED query, performed \subseteq performed',
         samePerson \subseteq samePerson',
         \A u \in Users : canonical[u] # NoId => canonical'[u] = canonical[u]
  PROVE  QueryInv'
<1>1. query.had \subseteq performed' /\ query.knew \subseteq samePerson'
  BY DEF QueryInv
<1>2. HistoryIsComplete'
  BY DEF QueryInv, HistoryIsComplete, WasKnown
<1>3. query.stage = "history" =>
        \A e \in query.had : NativeOf[ActorOf[e]] = query.user => query.times[e] >= 1
  BY DEF QueryInv
<1>4. ASSUME query.stage = "canonical", NEW e \in query.had, WasKnown(ActorOf[e])
      PROVE  query.times[e] >= 1 \/ canonical'[ActorOf[e]] = query.resolved
  <2>1. ActorOf[e] \in Users
    BY IdentityAssumption DEF TypeOK
  <2>2. query.resolved # NoId
        /\ (query.times[e] >= 1 \/ canonical[ActorOf[e]] = query.resolved)
    BY <1>4 DEF QueryInv
  <2> QED BY <2>1, <2>2
<1>5. query.stage = "canonical" => query.resolved # NoId
  BY DEF QueryInv
<1> QED BY <1>1, <1>2, <1>3, <1>4, <1>5 DEF QueryInv, WasKnown

\* The user that the query asks about, or one that was linked to it, has the
\* canonical id that the query finds, or is found by its nativeUserId.
LEMMA Resolves ==
  ASSUME PersonsDiffer, TypeOK, LinkInv, query.knew \subseteq samePerson,
         NEW id \in ResolvedTo(query.user), NEW v \in Users, WasKnown(v),
         NativeOf[v] # query.user
  PROVE  id # NoId /\ canonical[v] = id
<1>1. PICK u \in Users : /\ NativeOf[u] = query.user
                         /\ <<u, v>> \in query.knew \/ <<v, u>> \in query.knew
  BY DEF WasKnown
<1>2. <<u, v>> \in samePerson \/ <<v, u>> \in samePerson
  BY <1>1
<1>3. /\ u \in present /\ canonical[u] # NoId /\ canonical[v] # NoId
      /\ canonical[u] = canonical[v]
  BY <1>2 DEF TypeOK, LinkInv
<1>4. canonical[u] \in {canonical[w] : w \in {x \in present : NativeOf[x] = query.user}} \ {NoId}
  BY <1>1, <1>3
<1>5. id \in {canonical[w] : w \in {x \in present : NativeOf[x] = query.user}} \ {NoId}
  BY <1>4 DEF ResolvedTo
<1>6. PICK w \in present : NativeOf[w] = query.user /\ canonical[w] = id /\ id # NoId
  BY <1>5
<1>7. w \in Users /\ (u = w \/ Matches(u, w))
  BY <1>1, <1>6 DEF TypeOK, PersonsDiffer
<1> QED BY <1>3, <1>6, <1>7 DEF LinkInv

LEMMA QueryStep ==
  LinkHypotheses /\ PersonsDiffer /\ TypeOK /\ LinkInv /\ QueryInv /\ [Next]_vars => QueryInv'
<1> SUFFICES ASSUME LinkHypotheses, PersonsDiffer, TypeOK, LinkInv, QueryInv, [Next]_vars
             PROVE  QueryInv'
  OBVIOUS
<1>1. \A u \in Users : canonical[u] # NoId => canonical'[u] = canonical[u]
  BY CanonicalKept
<1>2. ASSUME NEW e \in Events, WriteEvent(e)  PROVE QueryInv'
  BY <1>1, <1>2, WritersKeep DEF WriteEvent
<1>3. ASSUME NEW a \in Users, NEW b \in Users, AttemptLink(a, b)  PROVE QueryInv'
  BY <1>1, <1>3, WritersKeep DEF AttemptLink
<1>4. ASSUME NEW id \in NativeIds, ReadHistory(id)  PROVE QueryInv'
  <2>1. /\ UNCHANGED <<performed, samePerson>>
        /\ query'.stage = "history" /\ query'.user = id
        /\ query'.had = performed /\ query'.knew = samePerson
        /\ query'.times = [e \in Events |-> IF e \in UserHistory(id) THEN 1 ELSE 0]
    BY <1>4 DEF ReadHistory, Idle, graphVars
  <2>2. \A e \in performed : e \in Events
    BY DEF TypeOK
  <2>3. \A e \in performed : NativeOf[ActorOf[e]] = id => query'.times[e] >= 1
    BY <2>1, <2>2 DEF UserHistory
  <2> QED BY <2>1, <2>3 DEF QueryInv, HistoryIsComplete
<1>5. CASE ReadCanonical
  <2>1. PICK id \in ResolvedTo(query.user) :
          query' = [query EXCEPT !.resolved = id,
                                 !.stage = IF id = NoId THEN "done" ELSE "canonical"]
    BY <1>5 DEF ReadCanonical
  <2>2. /\ query'.resolved = id /\ query'.user = query.user /\ query'.times = query.times
        /\ query'.had = query.had /\ query'.knew = query.knew
        /\ query'.stage = IF id = NoId THEN "done" ELSE "canonical"
    BY <2>1 DEF TypeOK
  <2>3. query.stage = "history" /\ UNCHANGED graphVars
    BY <1>5 DEF ReadCanonical
  <2>4. ASSUME NEW e \in query.had, WasKnown(ActorOf[e])
        PROVE  query.times[e] >= 1 \/ (id # NoId /\ canonical[ActorOf[e]] = id)
    <3>1. ActorOf[e] \in Users
      BY IdentityAssumption DEF TypeOK
    <3>2. CASE NativeOf[ActorOf[e]] = query.user
      BY <2>3, <3>2 DEF QueryInv
    <3>3. CASE NativeOf[ActorOf[e]] # query.user
      BY <2>4, <3>1, <3>3, Resolves DEF QueryInv
    <3> QED BY <3>2, <3>3
  <2>5. \A v : WasKnown(v)' <=> WasKnown(v)
    BY <2>2 DEF WasKnown
  <2>6. query'.had \subseteq performed' /\ query'.knew \subseteq samePerson'
    BY <2>2, <2>3 DEF QueryInv, graphVars
  <2>7. CASE id = NoId
    BY <2>2, <2>4, <2>5, <2>6, <2>7 DEF QueryInv, HistoryIsComplete
  <2>8. CASE id # NoId
    BY <2>2, <2>3, <2>4, <2>5, <2>6, <2>8 DEF QueryInv, HistoryIsComplete, graphVars
  <2> QED BY <2>7, <2>8
<1>6. CASE ReadCrossApp
  <2>1. /\ query.stage = "canonical" /\ UNCHANGED graphVars
        /\ query'.stage = "done" /\ query'.user = query.user
        /\ query'.had = query.had /\ query'.knew = query.knew
        /\ query'.times = [e \in Events |->
             query.times[e] + (IF e \in CrossAppHistory(query.resolved) THEN Extra(e) ELSE 0)]
    BY <1>6 DEF ReadCrossApp, TypeOK
  <2>2. ASSUME NEW e \in query.had, WasKnown(ActorOf[e])  PROVE query'.times[e] >= 1
    <3>1. e \in Events /\ e \in performed /\ query.times \in [Events -> 0..2]
      BY DEF QueryInv, TypeOK
    <3>2. query.times[e] >= 1 \/ canonical[ActorOf[e]] = query.resolved
      BY <2>1, <2>2 DEF QueryInv
    <3>3. query.times[e] \in 0..2
      BY <3>1
    <3>4. query'.times[e] =
             query.times[e] + (IF e \in CrossAppHistory(query.resolved) THEN Extra(e) ELSE 0)
      BY <2>1, <3>1
    <3> QED BY <3>1, <3>2, <3>3, <3>4 DEF CrossAppHistory, Extra
  <2>3. \A v : WasKnown(v)' <=> WasKnown(v)
    BY <2>1 DEF WasKnown
  <2>4. query'.had \subseteq performed' /\ query'.knew \subseteq samePerson'
    BY <2>1 DEF QueryInv, graphVars
  <2> QED BY <2>1, <2>2, <2>3, <2>4 DEF QueryInv, HistoryIsComplete
<1>7. CASE Predict
  <2>1. query' = Idle
    BY <1>7 DEF Predict
  <2> QED BY <2>1 DEF Idle, QueryInv, HistoryIsComplete
<1>8. CASE UNCHANGED vars
  BY <1>1, <1>8, WritersKeep DEF vars, graphVars
<1> QED BY <1>2, <1>3, <1>4, <1>5, <1>6, <1>7, <1>8 DEF Next

\* Whatever is linked and written between the three reads, the history has
\* every event of the user, and of the users linked to it, from before
\* (_collect_history), for persons of at most three identities.
THEOREM HistoriesAreComplete ==
  ASSUME NoneDeclared, PersonsDiffer, FewIdentities, IsFiniteSet(Users)
  PROVE  Spec => []HistoryIsComplete
<1>1. LinkHypotheses
  BY DEF LinkHypotheses
<1>2. Spec => []LinkInv
  BY <1>1, LinkInvariant
<1>3. Init => QueryInv
  BY DEF Init, Idle, QueryInv, HistoryIsComplete
<1>4. TypeOK /\ LinkInv /\ QueryInv /\ [Next]_vars => QueryInv'
  BY <1>1, QueryStep
<1>5. QueryInv => HistoryIsComplete
  BY DEF QueryInv
<1> QED BY <1>2, <1>3, <1>4, <1>5, IdentityTypeCorrect, PTL DEF Spec

=============================================================================
