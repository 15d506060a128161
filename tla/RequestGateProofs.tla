-------------------------- MODULE RequestGateProofs --------------------------
(***************************************************************************)
(* Theorems about RequestGate, for any requests, tenants, limits, clock    *)
(* changes and restarts.                                                   *)
(***************************************************************************)
EXTENDS RequestGate, FiniteSetTheorems, TLAPS

-----------------------------------------------------------------------------
(***************************************************************************)
(* The inductive invariant.                                                *)
(***************************************************************************)

\* Of any requests, only finitely many have been counted.
FinitelyMany == IsFiniteSet({r \in Requests : countedIn[r] # NoWindow})

\* Who has a window was counted, and is not unsent; who was limited has one.
CountedOnes ==
  \A r \in Requests :
    /\ stage[r] = "unsent" => countedIn[r] = NoWindow
    /\ stage[r] = "limited" => countedIn[r] # NoWindow
    /\ countedIn[r] # NoWindow => IsCounted(r)

\* While the clock has not been set back, no request was counted in a window to
\* come, and those of the present one have a counter.
NoneForgotten ==
  setBacks = 0 =>
    \A r \in Requests :
      /\ countedIn[r] <= window
      /\ countedIn[r] = window => KeyOf(r) \in DOMAIN counts

Inv ==
  /\ TypeOK
  /\ FinitelyMany
  /\ CountedOnes
  /\ NoneForgotten
  /\ CountsAreExact
  /\ WithinLimit
  /\ LimitedOnlyOverLimit

-----------------------------------------------------------------------------
(***************************************************************************)
(* Facts about the constants and about counting.                           *)
(***************************************************************************)

LEMMA LimitType == \A b : LimitOf(b) \in Nat
BY GateAssumption DEF LimitOf

LEMMA KeyType ==
  ASSUME TypeOK, NEW r \in Requests, IsCounted(r)
  PROVE  /\ KeyOf(r) \in Keys
         /\ ChargedTo(r) \in TenantIds
         /\ BucketOf(r) \in Buckets
BY DEF TypeOK, IsCounted, KeyOf, Keys, BucketOf, Buckets

\* What was counted for a key is finite.
LEMMA CountedForFinite ==
  ASSUME TypeOK, FinitelyMany, NEW t, NEW b, NEW w, w # NoWindow
  PROVE  /\ IsFiniteSet(CountedFor(t, b, w))
         /\ Cardinality(CountedFor(t, b, w)) \in Nat
<1>1. CountedFor(t, b, w) \subseteq {r \in Requests : countedIn[r] # NoWindow}
  BY DEF CountedFor
<1>2. IsFiniteSet(CountedFor(t, b, w))
  BY <1>1, FS_Subset DEF FinitelyMany
<1> QED BY <1>2, FS_CardinalityType

LEMMA WindowIsNone == \A w \in Windows : w # NoWindow
BY GateAssumption DEF Windows, NoWindow

\* The counters after pruning are those of the present window.
LEMMA PrunedType ==
  ASSUME TypeOK
  PROVE  /\ DOMAIN Pruned = {k \in DOMAIN counts : k[3] = window}
         /\ \A k \in DOMAIN Pruned : Pruned[k] = counts[k]
BY DEF Pruned

\* The counters after a request was counted.
LEMMA IncrementedIs ==
  ASSUME NEW key
  PROVE  /\ DOMAIN Incremented(key) = DOMAIN Pruned \union {key}
         /\ \A k \in DOMAIN Pruned \union {key} :
              Incremented(key)[k] = (IF k \in DOMAIN Pruned THEN Pruned[k] ELSE 0)
                                      + (IF k = key THEN 1 ELSE 0)
BY DEF Incremented

\* Counting a request adds it to the requests of its key and to no others.
LEMMA CountAdds ==
  ASSUME TypeOK, FinitelyMany, CountedOnes, NEW r \in Requests, Count(r),
         NEW t \in TenantIds, NEW b \in Buckets, NEW w \in Windows
  PROVE  /\ <<t, b, w>> = KeyOf(r) =>
              /\ CountedFor(t, b, w)' = CountedFor(t, b, w) \union {r}
              /\ Cardinality(CountedFor(t, b, w)') = Cardinality(CountedFor(t, b, w)) + 1
         /\ <<t, b, w>> # KeyOf(r) => CountedFor(t, b, w)' = CountedFor(t, b, w)
<1>1. countedIn[r] = NoWindow /\ countedIn' = [countedIn EXCEPT ![r] = window]
  BY DEF Count, CountedOnes
<1>2. w # NoWindow /\ r \notin CountedFor(t, b, w)
  BY <1>1, WindowIsNone DEF CountedFor
<1>3. \A q \in Requests : countedIn'[q] = IF q = r THEN window ELSE countedIn[q]
  BY <1>1 DEF TypeOK
<1>4. CASE <<t, b, w>> = KeyOf(r)
  <2>1. t = ChargedTo(r) /\ b = BucketOf(r) /\ w = window
    BY <1>4 DEF KeyOf
  <2>2. CountedFor(t, b, w)' = CountedFor(t, b, w) \union {r}
    BY <1>3, <2>1 DEF CountedFor
  <2>3. IsFiniteSet(CountedFor(t, b, w))
    BY <1>2, CountedForFinite
  <2>4. Cardinality(CountedFor(t, b, w) \union {r}) = Cardinality(CountedFor(t, b, w)) + 1
    BY <1>2, <2>3, FS_AddElement
  <2> QED BY <1>4, <2>2, <2>4
<1>5. CASE <<t, b, w>> # KeyOf(r)
  <2>1. ~ (t = ChargedTo(r) /\ b = BucketOf(r) /\ w = window)
    BY <1>5 DEF KeyOf
  <2>2. CountedFor(t, b, w)' = CountedFor(t, b, w)
    BY <1>2, <1>3, <2>1 DEF CountedFor
  <2> QED BY <1>5, <2>2
<1> QED BY <1>4, <1>5

-----------------------------------------------------------------------------
(***************************************************************************)
(* Type correctness.                                                       *)
(***************************************************************************)

LEMMA TypeInit == Init => TypeOK
BY GateAssumption DEF Init, TypeOK, Windows, Stages, NoWindow, Keys

LEMMA TypeCount ==
  ASSUME TypeOK, NEW r \in Requests, Count(r)
  PROVE  TypeOK'
<1>1. KeyOf(r) \in Keys /\ IsCounted(r)
  BY KeyType DEF Count
<1>2. DOMAIN counts' = DOMAIN Pruned \union {KeyOf(r)}
  BY IncrementedIs DEF Count
<1>3. DOMAIN counts' \subseteq Keys
  BY <1>1, <1>2, PrunedType DEF TypeOK
<1>4. \A k \in DOMAIN counts' : counts'[k] \in Nat \ {0}
  <2> SUFFICES ASSUME NEW k \in DOMAIN counts'  PROVE counts'[k] \in Nat \ {0}
    OBVIOUS
  <2>1. counts'[k] = (IF k \in DOMAIN Pruned THEN Pruned[k] ELSE 0)
                       + (IF k = KeyOf(r) THEN 1 ELSE 0)
    BY <1>2, IncrementedIs DEF Count
  <2>2. k \in DOMAIN Pruned => Pruned[k] \in Nat \ {0}
    BY PrunedType DEF TypeOK
  <2> QED BY <1>2, <2>1, <2>2
<1>5. stage' \in [Requests -> Stages] /\ countedIn' \in [Requests -> Windows \union {NoWindow}]
  BY DEF Count, TypeOK, Stages
<1>6. UNCHANGED <<window, setBacks, restarts>>
  BY DEF Count, clockVars
<1> QED BY <1>3, <1>4, <1>5, <1>6 DEF TypeOK

LEMMA TypeStep == TypeOK /\ [Next]_vars => TypeOK'
<1> SUFFICES ASSUME TypeOK, [Next]_vars  PROVE TypeOK'
  OBVIOUS
<1>1. ASSUME NEW r \in Requests, Count(r)  PROVE TypeOK'
  BY <1>1, TypeCount
<1>2. ASSUME NEW r \in Requests, PassUncounted(r)  PROVE TypeOK'
  BY <1>2 DEF PassUncounted, clockVars, TypeOK, Stages
<1>3. ASSUME NEW r \in Requests, Validate(r)  PROVE TypeOK'
  BY <1>3 DEF Validate, clockVars, TypeOK, Stages
<1>4. CASE Tick
  BY <1>4, GateAssumption DEF Tick, TypeOK, Windows
<1>5. CASE SetBack
  BY <1>5, GateAssumption DEF SetBack, TypeOK, Windows
<1>6. CASE Restart
  BY <1>6, GateAssumption DEF Restart, clockVars, TypeOK, Stages, Keys
<1>7. CASE UNCHANGED vars
  BY <1>7 DEF vars, TypeOK
<1> QED BY <1>1, <1>2, <1>3, <1>4, <1>5, <1>6, <1>7 DEF Next, Quiescent

\* The state of the limiter has its types whatever requests come
\* (RateLimitMiddleware).
THEOREM GateTypeCorrect == Spec => []TypeOK
<1> QED BY TypeInit, TypeStep, PTL DEF Spec

-----------------------------------------------------------------------------
(***************************************************************************)
(* The memory of the limiter, and the tenants of what is handled: both     *)
(* follow from types alone.                                                *)
(***************************************************************************)

LEMMA OneWindowStep == TypeOK /\ OneWindowKept /\ [Next]_vars => OneWindowKept'
<1> SUFFICES ASSUME TypeOK, OneWindowKept, [Next]_vars  PROVE OneWindowKept'
  OBVIOUS
<1>1. ASSUME NEW r \in Requests, Count(r)  PROVE OneWindowKept'
  <2>1. DOMAIN counts' = DOMAIN Pruned \union {KeyOf(r)}
    BY <1>1, IncrementedIs DEF Count
  <2>2. \A k \in DOMAIN counts' : k[3] = window
    BY <2>1, PrunedType DEF KeyOf
  <2> QED BY <2>2 DEF OneWindowKept
<1>2. CASE UNCHANGED counts
  BY <1>2 DEF OneWindowKept
<1>3. CASE Restart
  BY <1>3 DEF Restart, OneWindowKept
<1> QED BY <1>1, <1>2, <1>3
        DEF Next, PassUncounted, Validate, Tick, SetBack, Quiescent, vars

\* However many tenants, minutes and restarts there are, the limiter keeps the
\* counters of one window (_prune).
THEOREM LimiterKeepsOneWindow == Spec => []OneWindowKept
<1>1. Init => OneWindowKept
  BY DEF Init, OneWindowKept
<1> QED BY <1>1, OneWindowStep, GateTypeCorrect, PTL DEF Spec

\* What is handled was compared.
HandledWasCompared == \A r \in Requests : stage[r] = "handled" => ~Mismatch(r)

LEMMA ComparedStep == TypeOK /\ HandledWasCompared /\ [Next]_vars => HandledWasCompared'
<1> SUFFICES ASSUME TypeOK, HandledWasCompared, [Next]_vars, NEW q \in Requests,
                    stage'[q] = "handled"
             PROVE  ~Mismatch(q)
  BY DEF HandledWasCompared, Mismatch, Declared
<1>1. ASSUME NEW r \in Requests, Count(r)  PROVE ~Mismatch(q)
  BY <1>1 DEF Count, TypeOK, HandledWasCompared
<1>2. ASSUME NEW r \in Requests, PassUncounted(r)  PROVE ~Mismatch(q)
  BY <1>2 DEF PassUncounted, TypeOK, HandledWasCompared
<1>3. ASSUME NEW r \in Requests, Validate(r)  PROVE ~Mismatch(q)
  BY <1>3 DEF Validate, TypeOK, HandledWasCompared
<1>4. CASE Restart
  BY <1>4 DEF Restart, TypeOK, HandledWasCompared
<1>5. CASE UNCHANGED stage
  BY <1>5 DEF HandledWasCompared
<1> QED BY <1>1, <1>2, <1>3, <1>4, <1>5 DEF Next, Tick, SetBack, Quiescent, vars

LEMMA ComparedMatches == HandledWasCompared => HeaderMatchesBody
<1> SUFFICES ASSUME HandledWasCompared, NEW r \in Requests, stage[r] = "handled",
                    HeaderOf[r] # NoHeader, PathOf[r] # "other",
                    NEW i \in DOMAIN TenantsOf[r], TenantsOf[r][i] \in TenantIds \ {""}
             PROVE  TenantsOf[r][i] = HeaderOf[r]
  BY DEF HeaderMatchesBody
<1>1. ~Mismatch(r)
  BY DEF HandledWasCompared
<1>2. TenantsOf[r][i] \notin {Undeclared, ""}
  BY GateAssumption
<1>3. TenantsOf[r][i] \in Declared(r)
  BY <1>2 DEF Declared
<1> QED BY <1>1, <1>3 DEF Mismatch

\* No request with a header reaches a handler if any event of its body names
\* another tenant (TenantValidationMiddleware.dispatch).
THEOREM HeadersMatchBodies == Spec => []HeaderMatchesBody
<1>1. Init => HandledWasCompared
  BY DEF Init, HandledWasCompared
<1> QED BY <1>1, ComparedStep, ComparedMatches, GateTypeCorrect, PTL DEF Spec

-----------------------------------------------------------------------------
(***************************************************************************)
(* The counters and the limit.  Only Count adds to what is counted; only   *)
(* Restart takes from it, and takes the counters with it.                  *)
(***************************************************************************)

LEMMA InvInit == Init => Inv
<1> SUFFICES ASSUME Init  PROVE Inv
  OBVIOUS
<1>1. TypeOK
  BY TypeInit
<1>2. {r \in Requests : countedIn[r] # NoWindow} = {}
  BY DEF Init
<1>3. FinitelyMany
  BY <1>2, FS_EmptySet DEF FinitelyMany
<1>4. CountedOnes /\ NoneForgotten
  BY DEF Init, CountedOnes, NoneForgotten, NoWindow
<1>5. CountsAreExact
  BY DEF Init, CountsAreExact
<1>6. WithinLimit
  <2> SUFFICES ASSUME NEW t \in TenantIds, NEW b \in Buckets, NEW w \in Windows
               PROVE  Cardinality({r \in CountedFor(t, b, w) : stage[r] # "limited"}) <= LimitOf(b)
    BY DEF WithinLimit
  <2>1. {r \in CountedFor(t, b, w) : stage[r] # "limited"} = {}
    BY WindowIsNone DEF Init, CountedFor
  <2> QED BY <2>1, FS_EmptySet, LimitType
<1>7. LimitedOnlyOverLimit
  BY DEF Init, LimitedOnlyOverLimit
<1> QED BY <1>1, <1>3, <1>4, <1>5, <1>6, <1>7 DEF Inv

\* The counter of the counted request, after it.
LEMMA CountedExactly ==
  ASSUME Inv, NEW r \in Requests, Count(r),
         NEW t \in TenantIds, NEW b \in Buckets, NEW w \in Windows, <<t, b, w>> = KeyOf(r)
  PROVE  LET n == Cardinality(CountedFor(t, b, w)')
         IN  /\ n \in Nat
             /\ counts'[KeyOf(r)] \in Nat
             /\ counts'[KeyOf(r)] <= n
             /\ setBacks = 0 => counts'[KeyOf(r)] = n
<1> DEFINE old == Cardinality(CountedFor(t, b, w))
           new == Cardinality(CountedFor(t, b, w)')
<1>1. w = window
  BY DEF KeyOf
<1>2. old \in Nat
  BY CountedForFinite, WindowIsNone DEF Inv
<1>3. new = old + 1
  BY CountAdds DEF Inv
<1>4. counts'[KeyOf(r)] = (IF KeyOf(r) \in DOMAIN Pruned THEN Pruned[KeyOf(r)] ELSE 0) + 1
  BY IncrementedIs DEF Count
<1>5. CASE KeyOf(r) \in DOMAIN Pruned
  <2>1. KeyOf(r) \in DOMAIN counts /\ Pruned[KeyOf(r)] = counts[KeyOf(r)]
    BY <1>5, PrunedType DEF Inv
  <2>2. LET key == KeyOf(r)
            n   == Cardinality(CountedFor(key[1], key[2], key[3]))
        IN  counts[key] \in Nat /\ counts[key] <= n /\ (setBacks = 0 => counts[key] = n)
    BY <2>1 DEF Inv, TypeOK, CountsAreExact
  <2>3. KeyOf(r)[1] = t /\ KeyOf(r)[2] = b /\ KeyOf(r)[3] = w
    OBVIOUS
  <2>4. counts[KeyOf(r)] \in Nat /\ counts[KeyOf(r)] <= old
          /\ (setBacks = 0 => counts[KeyOf(r)] = old)
    BY <2>2, <2>3
  <2> QED BY <1>2, <1>3, <1>4, <1>5, <2>1, <2>4
<1>6. CASE KeyOf(r) \notin DOMAIN Pruned
  <2>1. counts'[KeyOf(r)] = 1
    BY <1>4, <1>6
  <2>2. setBacks = 0 => old = 0
    <3> SUFFICES ASSUME setBacks = 0  PROVE old = 0
      OBVIOUS
    <3>1. KeyOf(r) \notin DOMAIN counts
      BY <1>1, <1>6, PrunedType DEF Inv, KeyOf
    <3>2. ASSUME NEW q \in CountedFor(t, b, w)  PROVE FALSE
      <4>1. q \in Requests /\ countedIn[q] = window
        BY <1>1, <3>2 DEF CountedFor
      <4>2. KeyOf(q) = KeyOf(r)
        BY <3>2 DEF CountedFor, KeyOf
      <4> QED BY <3>1, <4>1, <4>2 DEF Inv, NoneForgotten
    <3>3. CountedFor(t, b, w) = {}
      BY <3>2
    <3> QED BY <3>3, FS_EmptySet
  <2> QED BY <1>2, <1>3, <2>1, <2>2
<1> QED BY <1>5, <1>6

LEMMA CountKeepsExact ==
  ASSUME Inv, NEW r \in Requests, Count(r)
  PROVE  CountsAreExact'
<1>1. DOMAIN counts' = DOMAIN Pruned \union {KeyOf(r)} /\ setBacks' = setBacks
  BY IncrementedIs DEF Count, clockVars
<1>2. SUFFICES ASSUME NEW key \in DOMAIN counts'
      PROVE LET n == Cardinality(CountedFor(key[1], key[2], key[3])')
            IN  counts'[key] <= n /\ (setBacks = 0 => counts'[key] = n)
  BY <1>1 DEF CountsAreExact
<1>3. key \in Keys
  BY TypeCount DEF Inv, TypeOK
<1>4. PICK t \in TenantIds, b \in Buckets, w \in Windows : key = <<t, b, w>>
  BY <1>3 DEF Keys
<1>5. key[1] = t /\ key[2] = b /\ key[3] = w
  BY <1>4
<1>6. CASE key = KeyOf(r)
  BY <1>4, <1>5, <1>6, CountedExactly
<1>7. CASE key # KeyOf(r)
  <2>1. key \in DOMAIN Pruned
    BY <1>1, <1>7
  <2>2. key \in DOMAIN counts /\ Pruned[key] = counts[key] /\ counts[key] \in Nat
    BY <2>1, PrunedType DEF Inv, TypeOK
  <2>3. counts'[key] = Pruned[key] + 0
    BY <2>1, <1>7, IncrementedIs DEF Count
  <2>4. CountedFor(t, b, w)' = CountedFor(t, b, w)
    BY <1>4, <1>7, CountAdds DEF Inv
  <2>5. LET n == Cardinality(CountedFor(t, b, w))
        IN  counts[key] <= n /\ (setBacks = 0 => counts[key] = n)
    BY <2>2, <1>5 DEF Inv, CountsAreExact
  <2>6. counts'[key] = counts[key]
    BY <2>2, <2>3
  <2> QED BY <1>5, <2>4, <2>5, <2>6
<1> QED BY <1>6, <1>7

LEMMA CountKeepsLimit ==
  ASSUME Inv, NEW r \in Requests, Count(r)
  PROVE  WithinLimit'
<1>1. SUFFICES ASSUME setBacks = 0, NEW t \in TenantIds, NEW b \in Buckets, NEW w \in Windows
      PROVE Cardinality({q \in CountedFor(t, b, w)' : stage'[q] # "limited"}) <= LimitOf(b)
  BY DEF WithinLimit, Count, clockVars, Windows, LimitOf, CountedFor
<1> DEFINE passed == {q \in CountedFor(t, b, w) : stage[q] # "limited"}
<1>2. Cardinality(passed) <= LimitOf(b)
  BY <1>1 DEF Inv, WithinLimit
<1>3. stage' = [stage EXCEPT ![r] =
                  IF Exceeds(counts'[KeyOf(r)], BucketOf(r)) THEN "limited" ELSE "counted"]
  BY DEF Count
<1>4. \A q \in Requests \ {r} : stage'[q] = stage[q]
  BY <1>3 DEF Inv, TypeOK
<1>5. r \notin CountedFor(t, b, w)
  BY WindowIsNone DEF CountedFor, Count, Inv, CountedOnes
<1>6. CountedFor(t, b, w) \subseteq Requests
  BY DEF CountedFor
<1>7. CASE <<t, b, w>> # KeyOf(r)
  <2>1. CountedFor(t, b, w)' = CountedFor(t, b, w)
    BY <1>7, CountAdds DEF Inv
  <2>2. {q \in CountedFor(t, b, w)' : stage'[q] # "limited"} = passed
    BY <2>1, <1>4, <1>5, <1>6
  <2> QED BY <1>2, <2>2
<1>8. CASE <<t, b, w>> = KeyOf(r)
  <2>1. t = ChargedTo(r) /\ b = BucketOf(r) /\ w = window
    BY <1>8 DEF KeyOf
  <2>2. CountedFor(t, b, w)' = CountedFor(t, b, w) \union {r}
    BY <1>8, CountAdds DEF Inv
  <2> DEFINE n == counts'[KeyOf(r)]
  <2>3. n \in Nat /\ n = Cardinality(CountedFor(t, b, w)')
    BY <1>1, <1>8, CountedExactly
  <2>4. CASE n > LimitOf(b)
    <3>1. stage'[r] = "limited"
      BY <1>3, <2>1, <2>4 DEF Exceeds, Inv, TypeOK
    <3>2. {q \in CountedFor(t, b, w)' : stage'[q] # "limited"} = passed
      BY <2>2, <3>1, <1>4, <1>5, <1>6
    <3> QED BY <1>2, <3>2
  <2>5. CASE ~ (n > LimitOf(b))
    <3>1. IsFiniteSet(CountedFor(t, b, w)')
      BY <2>2, CountedForFinite, WindowIsNone, FS_AddElement DEF Inv
    <3> DEFINE now == {q \in CountedFor(t, b, w)' : stage'[q] # "limited"}
    <3>2. now \subseteq CountedFor(t, b, w)'
      OBVIOUS
    <3>3. IsFiniteSet(now) /\ Cardinality(now) <= n
      BY <2>3, <3>1, <3>2, FS_Subset
    <3>4. Cardinality(now) \in Nat
      BY <3>3, FS_CardinalityType
    <3>5. n <= LimitOf(b)
      BY <2>3, <2>5, LimitType
    <3> QED BY <2>3, <3>3, <3>4, <3>5, LimitType
  <2> QED BY <2>4, <2>5
<1> QED BY <1>7, <1>8

LEMMA CountKeepsDeserved ==
  ASSUME Inv, NEW r \in Requests, Count(r)
  PROVE  LimitedOnlyOverLimit'
<1>1. stage' = [stage EXCEPT ![r] =
                  IF Exceeds(counts'[KeyOf(r)], BucketOf(r)) THEN "limited" ELSE "counted"]
        /\ countedIn' = [countedIn EXCEPT ![r] = window]
        /\ IsCounted(r)
  BY DEF Count
<1>2. SUFFICES ASSUME NEW q \in Requests, stage'[q] = "limited",
                      NEW w \in Windows, w = countedIn'[q]
      PROVE Cardinality(CountedFor(ChargedTo(q), BucketOf(q), w)') > LimitOf(BucketOf(q))
  <2>1. \A q \in Requests : stage'[q] = "limited" => countedIn'[q] \in Windows
    BY <1>1 DEF Inv, TypeOK, CountedOnes
  <2> QED BY <1>2, <2>1 DEF LimitedOnlyOverLimit, CountedFor, ChargedTo, BucketOf, LimitOf
<1>3. CASE q = r
  <2>1. w = window
    BY <1>1, <1>2, <1>3 DEF Inv, TypeOK
  <2>2. <<ChargedTo(r), BucketOf(r), w>> = KeyOf(r)
    BY <2>1 DEF KeyOf
  <2>3. ChargedTo(r) \in TenantIds /\ BucketOf(r) \in Buckets
    BY <1>1, KeyType DEF Inv
  <2> DEFINE n == counts'[KeyOf(r)]
             c == Cardinality(CountedFor(ChargedTo(r), BucketOf(r), w)')
  <2>4. n \in Nat /\ c \in Nat /\ n <= c
    BY <2>2, <2>3, CountedExactly
  <2>5. n > LimitOf(BucketOf(r))
    BY <1>1, <1>2, <1>3 DEF Exceeds, Inv, TypeOK
  <2> QED BY <1>3, <2>4, <2>5, LimitType
<1>4. CASE q # r
  <2>1. stage[q] = "limited" /\ countedIn[q] = w
    BY <1>1, <1>2, <1>4 DEF Inv, TypeOK
  <2>2. IsCounted(q) /\ ChargedTo(q) \in TenantIds /\ BucketOf(q) \in Buckets
    BY <2>1, WindowIsNone, KeyType DEF Inv, CountedOnes
  <2> DEFINE old == Cardinality(CountedFor(ChargedTo(q), BucketOf(q), w))
             new == Cardinality(CountedFor(ChargedTo(q), BucketOf(q), w)')
  <2>3. old \in Nat /\ old > LimitOf(BucketOf(q))
    BY <2>1, CountedForFinite, WindowIsNone DEF Inv, LimitedOnlyOverLimit
  <2>4. new = old \/ new = old + 1
    BY <2>2, CountAdds DEF Inv
  <2> QED BY <2>3, <2>4, LimitType
<1> QED BY <1>3, <1>4

LEMMA CountStep ==
  ASSUME Inv, NEW r \in Requests, Count(r)
  PROVE  Inv'
<1>1. TypeOK'
  BY TypeCount DEF Inv
<1>2. countedIn' = [countedIn EXCEPT ![r] = window] /\ window' = window /\ setBacks' = setBacks
        /\ IsCounted(r) /\ stage[r] = "unsent"
  BY DEF Count, clockVars
<1>3. \A q \in Requests : countedIn'[q] = IF q = r THEN window ELSE countedIn[q]
  BY <1>2 DEF Inv, TypeOK
<1>4. FinitelyMany'
  <2>1. {q \in Requests : countedIn'[q] # NoWindow}
          \subseteq {q \in Requests : countedIn[q] # NoWindow} \union {r}
    BY <1>3
  <2>2. IsFiniteSet({q \in Requests : countedIn[q] # NoWindow} \union {r})
    BY FS_AddElement DEF Inv, FinitelyMany
  <2> QED BY <2>1, <2>2, FS_Subset DEF FinitelyMany
<1>5. CountedOnes'
  <2>1. \A q \in Requests \ {r} : stage'[q] = stage[q]
    BY DEF Count, Inv, TypeOK
  <2>2. stage'[r] # "unsent" /\ window # NoWindow
    BY WindowIsNone DEF Count, Inv, TypeOK
  <2>3. \A q \in Requests : IsCounted(q)' = IsCounted(q)
    BY DEF IsCounted, Limited, ChargedTo
  <2> QED BY <1>2, <1>3, <2>1, <2>2, <2>3 DEF Inv, CountedOnes
<1>6. NoneForgotten'
  <2>1. DOMAIN counts' = DOMAIN Pruned \union {KeyOf(r)}
    BY IncrementedIs DEF Count
  <2>2. SUFFICES ASSUME setBacks = 0, NEW q \in Requests
        PROVE countedIn'[q] <= window /\ (countedIn'[q] = window => KeyOf(q) \in DOMAIN counts')
    BY <1>2 DEF NoneForgotten, KeyOf, ChargedTo, BucketOf
  <2>3. CASE q = r
    BY <1>1, <1>3, <2>1, <2>3, GateAssumption DEF Inv, TypeOK, Windows
  <2>4. CASE q # r
    <3>1. countedIn[q] <= window /\ (countedIn[q] = window => KeyOf(q) \in DOMAIN counts)
      BY <2>2 DEF Inv, NoneForgotten
    <3>2. KeyOf(q) \in DOMAIN counts => KeyOf(q) \in DOMAIN Pruned
      BY PrunedType DEF Inv, KeyOf
    <3> QED BY <1>3, <2>1, <2>4, <3>1, <3>2
  <2> QED BY <2>3, <2>4
<1> QED BY <1>1, <1>4, <1>5, <1>6, CountKeepsExact, CountKeepsLimit, CountKeepsDeserved DEF Inv

-----------------------------------------------------------------------------
(***************************************************************************)
(* The other steps.                                                        *)
(***************************************************************************)

\* Steps that change neither what was counted nor the counters nor the clock.
LEMMA QuietStep ==
  ASSUME Inv, TypeOK', UNCHANGED <<window, setBacks, counts, countedIn>>,
         \A r \in Requests : stage'[r] = "unsent" => stage[r] = "unsent",
         \A r \in Requests : stage'[r] = "limited" <=> stage[r] = "limited"
  PROVE  Inv'
<1>1. FinitelyMany'
  BY DEF Inv, FinitelyMany
<1>2. CountedOnes'
  BY DEF Inv, CountedOnes, IsCounted, Limited, ChargedTo
<1>3. NoneForgotten'
  BY DEF Inv, NoneForgotten, KeyOf, ChargedTo, BucketOf
<1>4. CountsAreExact'
  BY DEF Inv, CountsAreExact, CountedFor
<1>5. WithinLimit'
  <2> SUFFICES ASSUME setBacks = 0, NEW t \in TenantIds, NEW b \in Buckets, NEW w \in Windows
               PROVE  Cardinality({r \in CountedFor(t, b, w) : stage'[r] # "limited"}) <= LimitOf(b)
    BY DEF WithinLimit, CountedFor, LimitOf
  <2>1. {r \in CountedFor(t, b, w) : stage'[r] # "limited"}
          = {r \in CountedFor(t, b, w) : stage[r] # "limited"}
    BY DEF CountedFor
  <2> QED BY <2>1 DEF Inv, WithinLimit
<1>6. LimitedOnlyOverLimit'
  BY DEF Inv, LimitedOnlyOverLimit, CountedFor, ChargedTo, BucketOf, LimitOf
<1> QED BY <1>1, <1>2, <1>3, <1>4, <1>5, <1>6 DEF Inv

\* Steps of the clock alone.
LEMMA ClockStep ==
  ASSUME Inv, TypeOK', UNCHANGED <<stage, counts, countedIn>>,
         Tick \/ SetBack
  PROVE  Inv'
<1>1. FinitelyMany'
  BY DEF Inv, FinitelyMany
<1>2. CountedOnes'
  BY DEF Inv, CountedOnes, IsCounted, Limited, ChargedTo
<1>3. setBacks' = 0 => setBacks = 0 /\ window' = window + 1
  BY DEF Tick, SetBack, Inv, TypeOK
<1>4. NoneForgotten'
  <2> SUFFICES ASSUME setBacks' = 0, NEW r \in Requests
               PROVE  countedIn'[r] <= window' /\ countedIn'[r] # window'
    BY DEF NoneForgotten
  <2>1. countedIn[r] <= window
    BY <1>3 DEF Inv, NoneForgotten
  <2>2. window \in Nat /\ countedIn[r] \in Int
    BY GateAssumption DEF Inv, TypeOK, Windows, NoWindow
  <2> QED BY <1>3, <2>1, <2>2
<1>5. CountsAreExact'
  BY <1>3 DEF Inv, CountsAreExact, CountedFor
<1>6. WithinLimit'
  BY <1>3 DEF Inv, WithinLimit, CountedFor, LimitOf
<1>7. LimitedOnlyOverLimit'
  BY DEF Inv, LimitedOnlyOverLimit, CountedFor, ChargedTo, BucketOf, LimitOf
<1> QED BY <1>1, <1>2, <1>4, <1>5, <1>6, <1>7 DEF Inv

LEMMA RestartStep ==
  ASSUME Inv, Restart
  PROVE  Inv'
<1>1. TypeOK'
  BY TypeStep DEF Inv, Next
<1>2. \A r \in Requests : countedIn'[r] = NoWindow /\ stage'[r] \in {"unsent", "gone"}
  BY DEF Restart
<1>3. FinitelyMany'
  <2>1. {r \in Requests : countedIn'[r] # NoWindow} = {}
    BY <1>2
  <2> QED BY <2>1, FS_EmptySet DEF FinitelyMany
<1>4. CountedOnes' /\ LimitedOnlyOverLimit'
  BY <1>2 DEF CountedOnes, LimitedOnlyOverLimit
<1>5. NoneForgotten'
  <2>1. window' \in Nat
    BY <1>1, GateAssumption DEF TypeOK, Windows
  <2> QED BY <1>2, <2>1 DEF NoneForgotten, NoWindow
<1>6. CountsAreExact'
  BY DEF Restart, CountsAreExact
<1>7. WithinLimit'
  <2> SUFFICES ASSUME NEW t \in TenantIds, NEW b \in Buckets, NEW w \in Windows
               PROVE  Cardinality({r \in CountedFor(t, b, w)' : stage'[r] # "limited"}) <= LimitOf(b)
    BY DEF WithinLimit, LimitOf, Windows
  <2>1. CountedFor(t, b, w)' = {}
    BY <1>2, WindowIsNone DEF CountedFor
  <2>2. {r \in CountedFor(t, b, w)' : stage'[r] # "limited"} = {}
    BY <2>1
  <2> QED BY <2>2, FS_EmptySet, LimitType
<1> QED BY <1>1, <1>3, <1>4, <1>5, <1>6, <1>7 DEF Inv

LEMMA InvStep == Inv /\ [Next]_vars => Inv'
<1> SUFFICES ASSUME Inv, [Next]_vars  PROVE Inv'
  OBVIOUS
<1>1. TypeOK'
  BY TypeStep DEF Inv
<1>2. ASSUME NEW r \in Requests, Count(r)  PROVE Inv'
  BY <1>2, CountStep
<1>3. ASSUME NEW r \in Requests, PassUncounted(r) \/ Validate(r)  PROVE Inv'
  <2>1. UNCHANGED <<window, setBacks, counts, countedIn>>
    BY <1>3 DEF PassUncounted, Validate, clockVars
  <2>2. \A q \in Requests :
          /\ stage'[q] = "unsent" => stage[q] = "unsent"
          /\ stage'[q] = "limited" <=> stage[q] = "limited"
    BY <1>3 DEF PassUncounted, Validate, Inv, TypeOK
  <2> QED BY <1>1, <2>1, <2>2, QuietStep
<1>4. CASE Tick \/ SetBack
  BY <1>1, <1>4, ClockStep DEF Tick, SetBack
<1>5. CASE Restart
  BY <1>5, RestartStep
<1>6. CASE UNCHANGED vars
  BY <1>1, <1>6, QuietStep DEF vars
<1> QED BY <1>2, <1>3, <1>4, <1>5, <1>6 DEF Next, Quiescent

LEMMA GateInvariant == Spec => []Inv
BY InvInit, InvStep, PTL DEF Spec

-----------------------------------------------------------------------------
(***************************************************************************)
(* Results.                                                                *)
(***************************************************************************)

\* Each counter equals the number of requests that the present process counted
\* for it, unless the clock was set back (dispatch, _prune).
THEOREM CountersAreExact == Spec => []CountsAreExact
<1>1. Inv => CountsAreExact
  BY DEF Inv
<1> QED BY <1>1, GateInvariant, PTL

\* No tenant ever gets more than its limit through in one window (dispatch).
THEOREM NoOnePassesTheLimit == Spec => []WithinLimit
<1>1. Inv => WithinLimit
  BY DEF Inv
<1> QED BY <1>1, GateInvariant, PTL

\* No one is answered 429 for what others sent, or in another window or before
\* a restart (dispatch), even if the clock was set back.
THEOREM LimitsAreDeserved == Spec => []LimitedOnlyOverLimit
<1>1. Inv => LimitedOnlyOverLimit
  BY DEF Inv
<1> QED BY <1>1, GateInvariant, PTL

=============================================================================
