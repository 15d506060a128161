--------------------------- MODULE DetectionProofs ---------------------------
(***************************************************************************)
(* Theorems about Detection, for every set of events and every clock.      *)
(***************************************************************************)
EXTENDS Detection, HistoryProofs

-----------------------------------------------------------------------------
(***************************************************************************)
(* The inductive invariant.                                                *)
(***************************************************************************)

\* A history as USER_HISTORY returns it: no event twice, none before a later one.
LatestFirst(h) ==
  /\ h \in Seq(Events)
  /\ \A i, j \in DOMAIN h : h[i] = h[j] => i = j
  /\ \A i, j \in DOMAIN h : i < j => h[i].time >= h[j].time

Readings == [step : 0 .. 2, history : Seq(Events), since : Int, total : Nat]
Detections == [history : Seq(Events), since : Int, total : Nat, at : Int]

TypeOK ==
  /\ tick \in 1 .. Len(Moments)
  /\ stored \in SUBSET Events /\ IsFiniteSet(stored)
  /\ reading \in Readings
  /\ detected \in Detections

\* What was read is stored, and what is stored remains.
ReadsAreStored ==
  /\ LatestFirst(reading.history) /\ ToSet(reading.history) \subseteq stored
  /\ LatestFirst(detected.history) /\ ToSet(detected.history) \subseteq stored

\* The total was read after the history, of more events.
TotalsCover ==
  /\ reading.step = 2 => reading.total >= Len(reading.history)
  /\ detected.total >= Len(detected.history)

\* A history that was read holds what the last detection saw of its window.
ReadingCatchesUp ==
  reading.step >= 1 =>
    \A e \in ToSet(detected.history) : e.time >= reading.since => e \in ToSet(reading.history)

IInv == TypeOK /\ ReadsAreStored /\ TotalsCover /\ ReadingCatchesUp

-----------------------------------------------------------------------------
(***************************************************************************)
(* What is returned by a query.                                            *)
(***************************************************************************)

LEMMA ReadsAre == Len(Reads) = 2 /\ Reads[1] = "history" /\ Reads[2] = "count"
BY DEF Reads

\* The clock is one of the moments.
LEMMA ClockType ==
  ASSUME tick \in 1 .. Len(Moments)
  PROVE  Now \in Int /\ WindowStart \in Int
BY DetectionAssumption DEF Now, WindowStart, ProfilingWindowDays, Day

\* A read of some events returns each of them once, the latest first.
LEMMA ByTimeIsLatestFirst ==
  ASSUME NEW S \in SUBSET Events, IsFiniteSet(S), NEW tie \in BOOLEAN
  PROVE  /\ LatestFirst(ByTime(S, tie))
         /\ ToSet(ByTime(S, tie)) = S
         /\ Len(ByTime(S, tie)) = Cardinality(S)
<1> DEFINE f == ByTime(S, tie)
           key == [e \in S |-> <<- e.time, IF tie THEN e.id ELSE - e.id>>]
<1>1. \A e \in S : e \in Events /\ e.time \in Int /\ e.id \in Int
  BY DetectionAssumption
<1>2. \A e, d \in S : e.id = d.id => e = d
  BY DetectionAssumption
<1>3. /\ key \in [S -> Int \X Int]
      /\ \A e \in S : key[e][1] = - e.time
      /\ \A e, d \in S : key[e][2] = key[d][2] => e = d
  BY <1>1, <1>2
<1>4. f = InOrder(S, key)
  BY DEF ByTime
<1> HIDE DEF f, key
<1>5. /\ f \in Seq(S) /\ Len(f) = Cardinality(S) /\ ToSet(f) = S
      /\ \A i \in DOMAIN f : f[i] \in S
      /\ \A i, j \in DOMAIN f : f[i] = f[j] => i = j
      /\ \A i, j \in DOMAIN f : i < j <=> Less(key[f[i]], key[f[j]])
  BY <1>3, <1>4, SortedByPairs
<1>6. f \in Seq(Events)
  BY <1>5
<1>7. ASSUME NEW i \in DOMAIN f, NEW j \in DOMAIN f, i < j
      PROVE  f[i].time >= f[j].time
  <2>1. /\ f[i] \in S /\ f[j] \in S /\ Less(key[f[i]], key[f[j]])
        /\ key[f[i]] \in Int \X Int /\ key[f[j]] \in Int \X Int
    BY <1>3, <1>5, <1>7
  <2>2. key[f[i]][1] <= key[f[j]][1]
    BY <2>1, LessOfPairs
  <2> QED BY <2>1, <2>2, <1>1, <1>3
<1> QED BY <1>5, <1>6, <1>7 DEF LatestFirst, f

\* Nothing was read: the empty history.
LEMMA NothingIsLatestFirst == LatestFirst(<<>>) /\ ToSet(<<>>) = {} /\ Len(<<>>) = 0
BY DEF LatestFirst, ToSet

\* A history of stored events is no longer than there are stored events.
LEMMA StoredCoversHistory ==
  ASSUME NEW h, LatestFirst(h), NEW S, IsFiniteSet(S), ToSet(h) \subseteq S
  PROVE  Len(h) \in Nat /\ Cardinality(S) \in Nat /\ Len(h) <= Cardinality(S)
<1> DEFINE n == Len(h)
<1>1. n \in Nat /\ DOMAIN h = 1 .. n
  BY DEF LatestFirst
<1>2. h \in Injection(1 .. n, S)
  <2>1. h \in [1 .. n -> S]
    BY <1>1 DEF LatestFirst, ToSet
  <2> QED BY <1>1, <2>1 DEF LatestFirst, Injection, IsInjective
<1>3. Cardinality(1 .. n) = n
  <2>1. n \in Int /\ 1 \in Int /\ n - 1 + 1 = n /\ (1 > n <=> n = 0)
    BY <1>1
  <2> HIDE DEF n
  <2> QED BY <2>1, FS_Interval
<1>4. Cardinality(1 .. n) <= Cardinality(S)
  <2> HIDE DEF n
  <2> QED BY <1>2, FS_Injection
<1> QED BY <1>1, <1>3, <1>4, FS_CardinalityType

-----------------------------------------------------------------------------
(***************************************************************************)
(* The invariant is inductive.                                             *)
(***************************************************************************)

LEMMA InitEstablishes == Init => IInv
<1> SUFFICES ASSUME Init PROVE IInv
  OBVIOUS
<1>1. tick \in 1 .. Len(Moments)
  BY DetectionAssumption DEF Init
<1>2. Now \in Int /\ WindowStart \in Int
  BY <1>1, ClockType
<1>3. IsFiniteSet(stored) /\ stored \in SUBSET Events
  BY FS_EmptySet DEF Init
<1>4. TypeOK
  BY <1>1, <1>2, <1>3 DEF Init, Unread, TypeOK, Readings, Detections
<1>5. ReadsAreStored
  BY NothingIsLatestFirst DEF Init, Unread, ReadsAreStored
<1>6. TotalsCover /\ ReadingCatchesUp
  BY NothingIsLatestFirst DEF Init, Unread, TotalsCover, ReadingCatchesUp
<1> QED BY <1>4, <1>5, <1>6 DEF IInv

\* The first transaction: the history.
ReadHistory(tie) ==
  /\ reading.step = 0
  /\ reading' = [step |-> 1, history |-> UserHistory(tie), since |-> WindowStart,
                 total |-> reading.total]
  /\ UNCHANGED <<tick, stored, detected>>

\* The second: the count.
ReadCount ==
  /\ reading.step = 1
  /\ reading' = [step |-> 2, history |-> reading.history, since |-> reading.since,
                 total |-> UserEventCount]
  /\ UNCHANGED <<tick, stored, detected>>

LEMMA ReadIs ==
  ASSUME TypeOK, Read
  PROVE  (\E tie \in BOOLEAN : ReadHistory(tie)) \/ ReadCount
<1>1. reading.step \in 0 .. 2 /\ reading.step < 2
  BY ReadsAre DEF TypeOK, Readings, Read
<1>2. Reads[reading.step + 1] = "history" => reading.step = 0
  BY <1>1, ReadsAre
<1>3. Reads[reading.step + 1] = "count" => reading.step = 1
  BY <1>1, ReadsAre
<1> QED BY <1>2, <1>3 DEF Read, ReadHistory, ReadCount

LEMMA ReadHistoryPreserves ==
  ASSUME IInv, NEW tie \in BOOLEAN, ReadHistory(tie)
  PROVE  IInv'
<1> DEFINE S == {e \in stored : e.time >= WindowStart}
           h == UserHistory(tie)
<1>1. Now \in Int /\ WindowStart \in Int
  BY ClockType DEF IInv, TypeOK
<1>2. S \in SUBSET Events /\ S \subseteq stored /\ IsFiniteSet(S)
  <2>1. S \in SUBSET stored
    OBVIOUS
  <2> HIDE DEF S
  <2> QED BY <2>1, FS_Subset DEF IInv, TypeOK
<1>3. LatestFirst(h) /\ ToSet(h) = S
  <2>1. h = ByTime(S, tie)
    BY DEF UserHistory
  <2> HIDE DEF S, h
  <2> QED BY <1>2, <2>1, ByTimeIsLatestFirst
<1> HIDE DEF h
<1>4. reading' = [step |-> 1, history |-> h, since |-> WindowStart, total |-> reading.total]
  BY DEF ReadHistory, IInv, TypeOK, Readings, h
<1>5. TypeOK'
  BY <1>1, <1>3, <1>4 DEF ReadHistory, IInv, TypeOK, Readings, LatestFirst
<1>6. ReadsAreStored'
  BY <1>2, <1>3, <1>4 DEF ReadHistory, IInv, ReadsAreStored
<1>7. TotalsCover'
  BY <1>4 DEF ReadHistory, IInv, TotalsCover
<1>8. ReadingCatchesUp'
  BY <1>3, <1>4 DEF ReadHistory, IInv, ReadsAreStored, ReadingCatchesUp
<1> QED BY <1>5, <1>6, <1>7, <1>8 DEF IInv

LEMMA ReadCountPreserves ==
  ASSUME IInv, ReadCount
  PROVE  IInv'
<1>1. reading' = [step |-> 2, history |-> reading.history, since |-> reading.since,
                  total |-> Cardinality(stored)]
  BY DEF ReadCount, IInv, TypeOK, Readings, UserEventCount
<1>2. Cardinality(stored) \in Nat /\ Len(reading.history) <= Cardinality(stored)
  BY StoredCoversHistory DEF IInv, TypeOK, ReadsAreStored
<1>3. TypeOK'
  BY <1>1, <1>2 DEF ReadCount, IInv, TypeOK, Readings
<1>4. ReadsAreStored'
  BY <1>1 DEF ReadCount, IInv, ReadsAreStored
<1>5. TotalsCover'
  BY <1>1, <1>2 DEF ReadCount, IInv, TotalsCover, TypeOK, Readings
<1>6. ReadingCatchesUp'
  BY <1>1 DEF ReadCount, IInv, ReadingCatchesUp
<1> QED BY <1>3, <1>4, <1>5, <1>6 DEF IInv

LEMMA ReturnPreserves ==
  ASSUME IInv, Return
  PROVE  IInv'
<1>1. reading.step = 2
  BY ReadsAre DEF Return
<1>2. Now \in Int
  BY ClockType DEF IInv, TypeOK
<1>3. /\ reading' = [step |-> 0, history |-> <<>>, since |-> 0, total |-> 0]
      /\ detected' = [history |-> reading.history, since |-> reading.since,
                      total |-> reading.total, at |-> Now]
      /\ UNCHANGED <<tick, stored>>
  BY DEF Return, Unread
<1>4. TypeOK'
  BY <1>2, <1>3 DEF IInv, TypeOK, Readings, Detections
<1>5. ReadsAreStored'
  BY <1>3, NothingIsLatestFirst DEF IInv, ReadsAreStored
<1>6. TotalsCover' /\ ReadingCatchesUp'
  BY <1>1, <1>3 DEF IInv, TotalsCover, ReadingCatchesUp
<1> QED BY <1>4, <1>5, <1>6 DEF IInv

LEMMA WriteEventPreserves ==
  ASSUME IInv, NEW e \in Events, WriteEvent(e)
  PROVE  IInv'
<1>1. stored \subseteq stored' /\ stored' \in SUBSET Events /\ IsFiniteSet(stored')
  BY FS_AddElement DEF WriteEvent, IInv, TypeOK
<1>2. TypeOK'
  BY <1>1 DEF WriteEvent, IInv, TypeOK
<1>3. ReadsAreStored'
  BY <1>1 DEF WriteEvent, IInv, ReadsAreStored
<1>4. TotalsCover' /\ ReadingCatchesUp'
  BY DEF WriteEvent, IInv, TotalsCover, ReadingCatchesUp
<1> QED BY <1>2, <1>3, <1>4 DEF IInv

LEMMA TickPreserves ==
  ASSUME IInv, Tick
  PROVE  IInv'
<1>1. TypeOK'
  BY DetectionAssumption DEF Tick, IInv, TypeOK
<1>2. ReadsAreStored' /\ TotalsCover' /\ ReadingCatchesUp'
  BY DEF Tick, IInv, ReadsAreStored, TotalsCover, ReadingCatchesUp
<1> QED BY <1>1, <1>2 DEF IInv

LEMMA StepPreserves == IInv /\ [Next]_vars => IInv'
<1> SUFFICES ASSUME IInv, [Next]_vars PROVE IInv'
  OBVIOUS
<1>1. CASE Read
  BY <1>1, ReadIs, ReadHistoryPreserves, ReadCountPreserves DEF IInv
<1>2. CASE Return
  BY <1>2, ReturnPreserves
<1>3. CASE Tick
  BY <1>3, TickPreserves
<1>4. ASSUME NEW e \in Events, WriteEvent(e) PROVE IInv'
  BY <1>4, WriteEventPreserves
<1>5. CASE UNCHANGED vars
  BY <1>5 DEF vars, IInv, TypeOK, ReadsAreStored, TotalsCover, ReadingCatchesUp
<1> QED BY <1>1, <1>2, <1>3, <1>4, <1>5 DEF Next

\* What is read and returned is stored, counted and caught up with in every
\* reachable state (detect).
THEOREM InvariantHolds == Spec => []IInv
BY InitEstablishes, StepPreserves, PTL DEF Spec

\* The total of a profile is no less than the number of events that its
\* patterns count, because it is read last (detect).
THEOREM TotalCoversPatternsHolds == Spec => []TotalCoversPatterns
<1>1. IInv => TotalCoversPatterns
  BY DEF IInv, TotalsCover, TotalCoversPatterns
<1> QED BY <1>1, InvariantHolds, PTL

-----------------------------------------------------------------------------
(***************************************************************************)
(* Habits.                                                                 *)
(***************************************************************************)

\* In a history, as many places satisfy a condition as events do.
LEMMA PlacesCountEvents ==
  ASSUME NEW h, LatestFirst(h), NEW P \in SUBSET DOMAIN h, NEW E, E = {h[i] : i \in P}
  PROVE  /\ IsFiniteSet(P) /\ IsFiniteSet(E)
         /\ Cardinality(E) = Cardinality(P) /\ Cardinality(P) \in Nat
<1> DEFINE f == [i \in P |-> h[i]]
<1>1. Len(h) \in Nat /\ DOMAIN h = 1 .. Len(h)
  BY DEF LatestFirst
<1>2. IsFiniteSet(P) /\ Cardinality(P) \in Nat
  BY <1>1, PlacesAreFinite
<1>3. f \in [P -> E] /\ \A e \in E : \E i \in P : f[i] = e
  OBVIOUS
<1>4. \A i, j \in P : f[i] = f[j] => i = j
  BY DEF LatestFirst
<1>5. f \in Bijection(P, E)
  <2> HIDE DEF f
  <2> QED BY <1>3, <1>4 DEF Bijection, Injection, IsInjective, Surjection
<1>6. IsFiniteSet(E) /\ Cardinality(E) = Cardinality(P)
  <2> HIDE DEF f
  <2> QED BY <1>2, <1>5, FS_Bijection DEF ExistsBijection
<1> QED BY <1>2, <1>6

\* The most common of the values at some places of a history, each the value of
\* the event there, is the habit: later places are no later in time.
LEMMA MostCommonIsHabit ==
  ASSUME NEW h, LatestFirst(h), NEW P \in SUBSET DOMAIN h, P # {},
         NEW at, DOMAIN at = P, NEW value, DOMAIN value = {h[i] : i \in P},
         \A i \in P : value[h[i]] = at[i]
  PROVE  IsHabit(MostCommon(at), value)
<1> DEFINE uses     == DOMAIN value
           with(w)  == {e \in DOMAIN value : value[e] = w}
           last(w)  == Max({e.time : e \in with(w)})
           of(w)    == {i \in P : at[i] = w}
           times(w) == Cardinality({i \in DOMAIN at : at[i] = w})
           first(i) == \A j \in DOMAIN at : \/ times(at[j]) < times(at[i])
                                            \/ times(at[j]) = times(at[i]) /\ i <= j
           i        == CHOOSE i \in DOMAIN at : first(i)
           v        == at[i]
<1>1. /\ Len(h) \in Nat /\ DOMAIN h = 1 .. Len(h)
      /\ \A j \in DOMAIN h : h[j] \in Events /\ h[j].time \in Int
  BY DetectionAssumption DEF LatestFirst
<1>2. \A w : with(w) = {h[j] : j \in of(w)}
  OBVIOUS
<1>3. ASSUME NEW w
      PROVE  /\ IsFiniteSet(with(w))
             /\ Cardinality(with(w)) = times(w) /\ times(w) \in Nat
  <2> DEFINE Q == of(w)
             E == {h[j] : j \in Q}
  <2>1. Q \in SUBSET DOMAIN h /\ with(w) = E /\ times(w) = Cardinality(Q)
    BY <1>2
  <2>2. IsFiniteSet(E) /\ Cardinality(E) = Cardinality(Q) /\ Cardinality(Q) \in Nat
    <3>1. E = {h[j] : j \in Q}
      OBVIOUS
    <3> HIDE DEF Q, E
    <3> QED BY <2>1, <3>1, PlacesCountEvents
  <2> HIDE DEF E, with, times
  <2> QED BY <2>1, <2>2
<1>4. i \in P /\ first(i)
  <2> DEFINE t == [j \in P |-> times(at[j])]
  <2>1. t \in [P -> Int]
    <3> HIDE DEF times, with
    <3> QED BY <1>3
  <2>2. \E k \in P : \A j \in P : t[j] < t[k] \/ (t[j] = t[k] /\ k <= j)
    <3> HIDE DEF t
    <3>1. PICK n \in Nat : P \in SUBSET (1 .. n)
      BY <1>1
    <3>2. P # {}
      OBVIOUS
    <3> QED BY <2>1, <3>1, <3>2, FirstOfLargest, ZenonT(40)
  <2>3. \E k \in DOMAIN at : first(k)
    <3> HIDE DEF times
    <3> QED BY <2>2
  <2> HIDE DEF first
  <2> QED BY <2>3
<1>5. MostCommon(at) = v
  BY DEF MostCommon
<1>6. i \in of(v) /\ h[i] \in with(v)
  <2> HIDE DEF i
  <2> QED BY <1>4
<1>7. ASSUME NEW w, with(w) # {}
      PROVE  /\ last(w) \in {e.time : e \in with(w)}
             /\ \A e \in with(w) : e.time \in Int /\ last(w) >= e.time
  <2> DEFINE T == {e.time : e \in with(w)}
             t == [e \in with(w) |-> e.time]
  <2>1. \A e \in with(w) : e.time \in Int
    BY <1>1
  <2>2. t \in Surjection(with(w), T) /\ T \in SUBSET Int /\ T # {}
    <3> HIDE DEF with
    <3> QED BY <2>1, <1>7 DEF Surjection
  <2>3. IsFiniteSet(T)
    <3> HIDE DEF with, T, t, times
    <3> QED BY <2>2, <1>3, FS_Surjection
  <2>4. Max(T) \in T /\ \A x \in T : Max(T) >= x
    <3> HIDE DEF with, T, t
    <3> QED BY <2>2, <2>3, MaxOfFinite
  <2> HIDE DEF with
  <2> QED BY <2>1, <2>4
<1>8. ASSUME NEW w \in {value[e] : e \in DOMAIN value}
      PROVE  \/ Cardinality(with(v)) > Cardinality(with(w))
             \/ Cardinality(with(v)) = Cardinality(with(w)) /\ last(v) >= last(w)
  <2>1. with(w) # {}
    OBVIOUS
  <2>2. PICK e \in with(w) : last(w) = e.time
    <3> HIDE DEF with, last
    <3> QED BY <1>7, <2>1
  <2>3. PICK j \in of(w) : h[j] = e
    <3> HIDE DEF with, of
    <3> QED BY <1>2
  <2>4. at[j] = w /\ j \in P
    OBVIOUS
  <2>5. times(w) < times(v) \/ (times(w) = times(v) /\ i <= j)
    <3> HIDE DEF times, i
    <3> QED BY <2>4, <1>4
  <2>6. CASE i <= j
    <3>1. h[i].time \in Int /\ h[j].time \in Int /\ h[i].time >= h[j].time
      <4>1. i \in P /\ j \in P
        BY <1>4, <2>4
      <4> HIDE DEF i
      <4>2. i \in DOMAIN h /\ j \in DOMAIN h /\ i \in Int /\ j \in Int
        BY <1>1, <4>1
      <4>3. h[i].time \in Int /\ h[j].time \in Int
        BY <1>1, <4>2
      <4>4. CASE i = j
        BY <4>3, <4>4
      <4>5. CASE i < j
        <5>1. \A a, b \in DOMAIN h : a < b => h[a].time >= h[b].time
          BY DEF LatestFirst
        <5> QED BY <4>2, <4>3, <4>5, <5>1
      <4> QED BY <2>6, <4>2, <4>3, <4>4, <4>5
    <3>2. last(v) >= h[i].time /\ last(v) \in Int
      <4> HIDE DEF with, last, v
      <4> QED BY <1>6, <1>7
    <3>3. last(v) >= last(w)
      <4> HIDE DEF with, last, v, i
      <4> QED BY <3>1, <3>2, <2>2, <2>3
    <3> HIDE DEF with, last, v, i, times
    <3> QED BY <2>5, <3>3, <1>3
  <2>7. CASE times(w) < times(v)
    <3> HIDE DEF with, last, v, i, times
    <3> QED BY <2>7, <1>3
  <2> HIDE DEF with, last, v, i, times
  <2> QED BY <2>5, <2>6, <2>7
<1>9. with(v) # {}
  <2> HIDE DEF v, i, with
  <2> QED BY <1>6
<1> HIDE DEF v, i
<1> QED BY <1>5, <1>8, <1>9 DEF IsHabit

\* The most common of the hours of an action is the habit in a history that is
\* the latest first (describe_time_of_day).
LEMMA HoursAreHabits ==
  ASSUME NEW h, LatestFirst(h), NEW e \in ToSet(h)
  PROVE  IsHabit(TypicalHour(h, e.app, e.action),
                 [f \in {f \in ToSet(h) : f.app = e.app /\ f.action = e.action} |-> HourOf(f.time)])
<1> DEFINE P     == Uses(h, e.app, e.action)
           at    == [i \in P |-> HourOf(h[i].time)]
           uses  == {f \in ToSet(h) : f.app = e.app /\ f.action = e.action}
           value == [f \in uses |-> HourOf(f.time)]
<1>1. P \in SUBSET DOMAIN h /\ P # {} /\ uses = {h[i] : i \in P}
  BY DEF ToSet, Uses
<1> HIDE DEF P, uses
<1>2. DOMAIN at = P /\ DOMAIN value = {h[i] : i \in P} /\ \A i \in P : value[h[i]] = at[i]
  BY <1>1
<1>3. IsHabit(MostCommon(at), value)
  <2> HIDE DEF at, value
  <2> QED BY <1>1, <1>2, MostCommonIsHabit
<1> QED BY <1>3 DEF TypicalHour, P, uses

\* And so is the most common of the texts of a parameter
\* (_detect_parameter_defaults).
LEMMA DefaultsAreHabits ==
  ASSUME NEW h, LatestFirst(h), NEW action, NEW name,
         {f \in ToSet(h) : f.action = action /\ GivesParameter(f, name)} # {}
  PROVE  IsHabit(ParameterDefault(h, action, name),
                 [f \in {f \in ToSet(h) : f.action = action /\ GivesParameter(f, name)}
                    |-> TextOf(f, name)])
<1> DEFINE P     == ParameterUses(h, action, name)
           at    == [i \in P |-> TextOf(h[i], name)]
           uses  == {f \in ToSet(h) : f.action = action /\ GivesParameter(f, name)}
           value == [f \in uses |-> TextOf(f, name)]
<1>1. P \in SUBSET DOMAIN h /\ P # {} /\ uses = {h[i] : i \in P}
  BY DEF ToSet, ParameterUses
<1> HIDE DEF P, uses
<1>2. DOMAIN at = P /\ DOMAIN value = {h[i] : i \in P} /\ \A i \in P : value[h[i]] = at[i]
  BY <1>1
<1>3. IsHabit(MostCommon(at), value)
  <2> HIDE DEF at, value
  <2> QED BY <1>1, <1>2, MostCommonIsHabit
<1> QED BY <1>3 DEF ParameterDefault, P, uses

\* The typical hours and the defaults that a profile gives are the user's habits
\* (describe_time_of_day, _detect_parameter_defaults).
THEOREM HabitsFollowUseHolds == Spec => []HabitsFollowUse
<1>1. IInv => HabitsFollowUse
  BY HoursAreHabits, DefaultsAreHabits DEF IInv, ReadsAreStored, HabitsFollowUse
<1> QED BY <1>1, InvariantHolds, PTL

-----------------------------------------------------------------------------
(***************************************************************************)
(* Active objects.                                                         *)
(***************************************************************************)

\* The events of an object in a history.
EventsOn(h, o) == {e \in ToSet(h) : <<e.app, e.object>> = o}

\* An entry of stats counts the events of its object and has the time of the
\* latest.
LEMMA ActivityIs ==
  ASSUME NEW h, LatestFirst(h), NEW o \in ObjectsOf(h)
  PROVE  /\ Activity(h, o).object = o
         /\ IsFiniteSet(EventsOn(h, o)) /\ EventsOn(h, o) # {}
         /\ Activity(h, o).interaction_count \in Nat
         /\ Activity(h, o).interaction_count = Cardinality(EventsOn(h, o))
         /\ Activity(h, o).last_activity \in {e.time : e \in EventsOn(h, o)}
         /\ Activity(h, o).last_activity \in Int
         /\ \A e \in EventsOn(h, o) : e.time \in Int /\ Activity(h, o).last_activity >= e.time
         /\ TouchesOf(h, o) \in SUBSET (1 .. Len(h)) /\ TouchesOf(h, o) # {}
<1> DEFINE P == TouchesOf(h, o)
           E == EventsOn(h, o)
           T == {h[i].time : i \in P}
           t == [i \in P |-> h[i].time]
<1>1. /\ Len(h) \in Nat /\ DOMAIN h = 1 .. Len(h)
      /\ \A i \in DOMAIN h : h[i] \in Events /\ h[i].time \in Int
  BY DetectionAssumption DEF LatestFirst
<1>2. P \in SUBSET DOMAIN h /\ E = {h[i] : i \in P} /\ P # {} /\ E # {}
  <2>1. P \in SUBSET DOMAIN h /\ P # {}
    BY DEF TouchesOf, ObjectsOf, ToSet
  <2>2. E = {h[i] : i \in P}
    BY DEF TouchesOf, EventsOn, ToSet
  <2> QED BY <2>1, <2>2
<1> HIDE DEF P, E
<1>3. IsFiniteSet(P) /\ IsFiniteSet(E) /\ Cardinality(E) = Cardinality(P) /\ Cardinality(P) \in Nat
  BY <1>2, PlacesCountEvents
<1>4. t \in Surjection(P, T) /\ T \in SUBSET Int /\ T # {}
  BY <1>1, <1>2 DEF Surjection
<1>5. IsFiniteSet(T)
  <2> HIDE DEF T, t
  <2> QED BY <1>3, <1>4, FS_Surjection
<1>6. Max(T) \in T /\ \A x \in T : Max(T) >= x
  <2> HIDE DEF T
  <2> QED BY <1>4, <1>5, MaxOfFinite
<1>7. T = {e.time : e \in E}
  BY <1>2
<1>8. Activity(h, o) = [object |-> o, interaction_count |-> Cardinality(P), last_activity |-> Max(T)]
  BY DEF Activity, P
<1>9. Max(T) \in {e.time : e \in E} /\ Max(T) \in Int /\ \A e \in E : e.time \in Int /\ Max(T) >= e.time
  <2>1. \A e \in E : e.time \in T
    BY <1>7
  <2> HIDE DEF T
  <2> QED BY <1>4, <1>6, <1>7, <2>1
<1> HIDE DEF T
<1> QED BY <1>1, <1>2, <1>3, <1>8, <1>9 DEF P, E

\* g is made of the first m elements of f, or of all that there are.
IsBeginning(g, f, m) == g = SubSeq(f, 1, IF Len(f) < m THEN Len(f) ELSE m)

\* The beginning of a sequence that holds nothing twice.
LEMMA BeginningOf ==
  ASSUME NEW S, NEW f \in Seq(S), \A i, j \in DOMAIN f : f[i] = f[j] => i = j,
         NEW m \in Nat, NEW g, IsBeginning(g, f, m)
  PROVE  /\ ToSet(g) \subseteq ToSet(f)
         /\ ToSet(g) # ToSet(f) => Cardinality(ToSet(g)) = m
         /\ \A i, j \in DOMAIN f : f[i] \in ToSet(g) /\ f[j] \notin ToSet(g) => i < j
<1> DEFINE n == IF Len(f) < m THEN Len(f) ELSE m
           G == {f[i] : i \in 1 .. n}
<1>1. n \in Nat /\ n <= Len(f) /\ Len(f) \in Nat /\ DOMAIN f = 1 .. Len(f) /\ (n = m \/ n = Len(f))
  OBVIOUS
<1> HIDE DEF n
<1>0. /\ \A i \in 1 .. n : i \in DOMAIN f
      /\ \A i \in 1 .. n : \A j \in DOMAIN f : j \notin 1 .. n => i < j
  <2> DEFINE l == Len(f)
  <2>1. n \in Nat /\ l \in Nat /\ n <= l /\ DOMAIN f = 1 .. l
    BY <1>1
  <2> HIDE DEF l
  <2>2. ASSUME NEW i \in 1 .. n PROVE i \in 1 .. l
    BY <2>1
  <2>3. ASSUME NEW i \in 1 .. n, NEW j \in 1 .. l, j \notin 1 .. n PROVE i < j
    BY <2>1, <2>3
  <2> QED BY <2>1, <2>2, <2>3
<1>2. ToSet(g) = G
  <2>1. g = SubSeq(f, 1, n)
    BY DEF IsBeginning, n
  <2>2. Len(g) = n /\ DOMAIN g = 1 .. n /\ \A i \in 1 .. n : g[i] = f[i]
    BY <1>1, <2>1, f \in Seq(S) DEF n
  <2> QED BY <2>2 DEF ToSet
<1>3. G \subseteq ToSet(f)
  BY <1>0 DEF ToSet
<1>4. n = Len(f) => G = ToSet(f)
  BY <1>1 DEF ToSet
<1>5. Cardinality(G) = n
  <2> DEFINE a == [i \in 1 .. n |-> f[i]]
  <2>1. a \in [1 .. n -> G] /\ \A c \in G : \E i \in 1 .. n : a[i] = c
    OBVIOUS
  <2>2. \A i, j \in 1 .. n : a[i] = a[j] => i = j
    BY <1>0
  <2>3. a \in Bijection(1 .. n, G)
    <3> HIDE DEF a, G
    <3> QED BY <2>1, <2>2 DEF Bijection, Injection, IsInjective, Surjection
  <2> HIDE DEF a, G
  <2> QED BY <2>3, <1>1, FS_CountingElements DEF ExistsBijection
<1>6. ASSUME NEW i \in DOMAIN f, NEW j \in DOMAIN f, f[i] \in G, f[j] \notin G
      PROVE  i < j
  <2>1. PICK k \in 1 .. n : f[i] = f[k]
    BY <1>6
  <2>2. i = k
    BY <2>1, <1>0
  <2>3. j \notin 1 .. n
    BY <1>6
  <2> QED BY <2>2, <2>3, <1>0
<1> HIDE DEF G
<1> QED BY <1>1, <1>2, <1>3, <1>4, <1>5, <1>6

ActiveIn(h, at) == {a \in {Activity(h, o) : o \in ObjectsOf(h)} : IsActive(a, at)}

LEMMA ActiveIsFinite ==
  ASSUME NEW h, LatestFirst(h), NEW at
  PROVE  IsFiniteSet(ActiveIn(h, at))
<1> DEFINE n == Len(h)
           g == [i \in 1 .. n |-> Activity(h, <<h[i].app, h[i].object>>)]
           A == {Activity(h, o) : o \in ObjectsOf(h)}
<1>1. n \in Nat /\ DOMAIN h = 1 .. n
  BY DEF LatestFirst
<1>2. A = {Activity(h, <<h[i].app, h[i].object>>) : i \in 1 .. n}
  <2> HIDE DEF n
  <2> QED BY <1>1 DEF ObjectsOf, ToSet
<1>3. g \in Surjection(1 .. n, A)
  <2> HIDE DEF A, n
  <2> QED BY <1>2 DEF Surjection
<1>4. IsFiniteSet(1 .. n)
  <2> HIDE DEF n
  <2> QED BY <1>1, FS_Interval, 1 \in Int, n \in Int
<1>5. IsFiniteSet(A)
  <2> HIDE DEF g, A, n
  <2> QED BY <1>3, <1>4, FS_Surjection
<1>6. ActiveIn(h, at) \in SUBSET A
  BY DEF ActiveIn
<1> HIDE DEF A
<1> QED BY <1>5, <1>6, FS_Subset

\* Only active objects are listed, and one that is not finds the list full of
\* objects than which it is not busier.
LEMMA TheBusiestAreListed ==
  ASSUME NEW h, LatestFirst(h), NEW at \in Int
  PROVE  /\ ToSet(ActiveObjects(h, at)) \subseteq ActiveIn(h, at)
         /\ \A a \in ActiveIn(h, at) \ ToSet(ActiveObjects(h, at)) :
              /\ Cardinality(ToSet(ActiveObjects(h, at))) = MaxActiveObjects
              /\ \A b \in ToSet(ActiveObjects(h, at)) : ~ Busier(a, b)
<1> DEFINE S == ActiveIn(h, at)
           first(a) == Min(TouchesOf(h, a.object))
           key == [a \in S |-> <<- a.interaction_count, - a.last_activity, first(a)>>]
           f == InOrder(S, key)
           listed == ActiveObjects(h, at)
<1>1. \A a \in S : a.object \in ObjectsOf(h) /\ a = Activity(h, a.object)
  BY ActivityIs DEF ActiveIn
<1>2. ASSUME NEW a \in S
      PROVE  /\ a.interaction_count \in Int /\ a.last_activity \in Int
             /\ first(a) \in TouchesOf(h, a.object) /\ first(a) \in Int
  <2>1. a.interaction_count \in Int /\ a.last_activity \in Int
        /\ TouchesOf(h, a.object) \in SUBSET (1 .. Len(h)) /\ TouchesOf(h, a.object) # {}
    <3> HIDE DEF S
    <3> QED BY <1>1, ActivityIs
  <2> DEFINE P == TouchesOf(h, a.object)
  <2>2. Len(h) \in Nat
    BY DEF LatestFirst
  <2>3. Min(P) \in P /\ Min(P) \in Int
    <3>1. P \in SUBSET (1 .. Len(h)) /\ P # {}
      BY <2>1
    <3> HIDE DEF P
    <3>2. P \in SUBSET Int /\ IsFiniteSet(P)
      BY <3>1, <2>2, PlacesAreFinite
    <3> QED BY <3>1, <3>2, MinOfFinite
  <2> HIDE DEF S
  <2> QED BY <2>1, <2>3
<1>3. \A a, b \in S : first(a) = first(b) => a = b
  <2>1. \A a, b \in S : first(a) = first(b) => a.object = b.object
    <3> HIDE DEF first, S
    <3> QED BY <1>2 DEF TouchesOf
  <2> HIDE DEF first, S
  <2> QED BY <2>1, <1>1
<1>4. IsFiniteSet(S)
  BY ActiveIsFinite
<1>5. IsBeginning(listed, f, MaxActiveObjects)
  BY DEF ActiveObjects, ActiveIn, IsBeginning
<1> HIDE DEF listed, S, first
<1>6. ASSUME NEW a \in S, NEW b \in S
      PROVE  /\ key[a] \in [1 .. 3 -> Int]
             /\ key[a] = key[b] => a = b
             /\ Less(key[a], key[b]) => ~ Busier(b, a)
  <2>1. /\ a.interaction_count \in Int /\ a.last_activity \in Int /\ first(a) \in Int
        /\ b.interaction_count \in Int /\ b.last_activity \in Int /\ first(b) \in Int
    BY <1>2
  <2> DEFINE p == key[a]
             q == key[b]
  <2>2. /\ p = <<- a.interaction_count, - a.last_activity, first(a)>>
        /\ q = <<- b.interaction_count, - b.last_activity, first(b)>>
    OBVIOUS
  <2> HIDE DEF key, p, q
  <2>3. /\ p \in Int \X Int \X Int
        /\ p[1] = - a.interaction_count /\ p[2] = - a.last_activity /\ p[3] = first(a)
    BY <2>1, <2>2
  <2>4. /\ q \in Int \X Int \X Int
        /\ q[1] = - b.interaction_count /\ q[2] = - b.last_activity /\ q[3] = first(b)
    BY <2>1, <2>2
  <2>5. p \in [1 .. 3 -> Int]
    BY <2>3, <2>4, LessOfTriples
  <2>6. Less(p, q) => p[1] < q[1] \/ (p[1] = q[1] /\ p[2] <= q[2])
    BY <2>3, <2>4, LessOfTriples
  <2>7. Less(p, q) => ~ Busier(b, a)
    BY <2>1, <2>3, <2>4, <2>6 DEF Busier
  <2>8. p = q => a = b
    BY <2>3, <2>4, <1>3
  <2> QED BY <2>5, <2>7, <2>8 DEF p, q
<1>7. key \in [S -> [1 .. 3 -> Int]]
  <2>1. key = [a \in S |-> key[a]]
    OBVIOUS
  <2> HIDE DEF key
  <2> QED BY <2>1, <1>6
<1> HIDE DEF key
<1>8. \A a, b \in S : key[a] = key[b] => a = b
  BY <1>6
<1>9. f = InOrder(S, key)
  OBVIOUS
<1> HIDE DEF f
<1>10. /\ f \in Seq(S) /\ f \in Bijection(1 .. Cardinality(S), S) /\ ToSet(f) = S
       /\ \A i, j \in DOMAIN f : i < j <=> Less(key[f[i]], key[f[j]])
  <2>1. 3 \in Nat /\ IsFiniteSet(S)
    BY <1>4
  <2>2. /\ InOrder(S, key) \in Seq(S)
        /\ InOrder(S, key) \in Bijection(1 .. Cardinality(S), S)
        /\ ToSet(InOrder(S, key)) = S
        /\ \A i, j \in DOMAIN InOrder(S, key) :
             i < j <=> Less(key[InOrder(S, key)[i]], key[InOrder(S, key)[j]])
    BY <1>7, <1>8, <2>1, InOrderSorts
  <2> QED BY <1>9, <2>2
<1>11. DOMAIN f = 1 .. Cardinality(S) /\ \A i, j \in DOMAIN f : f[i] = f[j] => i = j
  BY <1>10 DEF Bijection, Injection, IsInjective
<1>12. /\ ToSet(listed) \subseteq S
       /\ ToSet(listed) # S => Cardinality(ToSet(listed)) = MaxActiveObjects
       /\ \A i, j \in DOMAIN f : f[i] \in ToSet(listed) /\ f[j] \notin ToSet(listed) => i < j
  <2>1. MaxActiveObjects \in Nat
    BY DetectionAssumption
  <2> QED BY <1>5, <1>10, <1>11, <2>1, BeginningOf
<1>13. ASSUME NEW a \in S, a \notin ToSet(listed), NEW b \in ToSet(listed)
       PROVE  ~ Busier(a, b)
  <2>1. b \in S
    BY <1>12
  <2>2. PICK i \in DOMAIN f, j \in DOMAIN f : f[i] = b /\ f[j] = a
    BY <1>10, <2>1 DEF ToSet
  <2>3. Less(key[b], key[a])
    BY <1>10, <1>12, <1>13, <2>2
  <2> QED BY <2>1, <2>3, <1>6
<1>14. \A a \in S \ ToSet(listed) : Cardinality(ToSet(listed)) = MaxActiveObjects
  BY <1>12
<1> QED BY <1>12, <1>13, <1>14 DEF S, listed

\* When every event of an object is also in another history, it has been used
\* there as often, and as late.
LEMMA MoreSeenIsNoLess ==
  ASSUME NEW h, LatestFirst(h), NEW g, LatestFirst(g), NEW o \in ObjectsOf(h),
         EventsOn(h, o) \subseteq ToSet(g)
  PROVE  /\ o \in ObjectsOf(g)
         /\ Activity(h, o).interaction_count <= Activity(g, o).interaction_count
         /\ Activity(h, o).last_activity <= Activity(g, o).last_activity
<1>1. EventsOn(h, o) \in SUBSET EventsOn(g, o) /\ EventsOn(h, o) # {}
  BY ActivityIs DEF EventsOn
<1>2. o \in ObjectsOf(g)
  BY <1>1 DEF EventsOn, ObjectsOf
<1>3. Cardinality(EventsOn(h, o)) <= Cardinality(EventsOn(g, o))
  BY <1>1, <1>2, ActivityIs, FS_Subset
<1>4. PICK e \in EventsOn(h, o) : Activity(h, o).last_activity = e.time
  BY ActivityIs
<1>5. e.time <= Activity(g, o).last_activity
  <2>1. e \in EventsOn(g, o)
    BY <1>1, <1>4
  <2>2. Activity(g, o).last_activity >= e.time /\ e.time \in Int
        /\ Activity(g, o).last_activity \in Int
    BY <1>2, <2>1, ActivityIs
  <2> QED BY <2>2
<1> QED BY <1>2, <1>3, <1>4, <1>5, ActivityIs

\* From one answer to the next: h and g are the histories they are made of.
LEMMA ListedObjectsStay ==
  ASSUME NEW h, LatestFirst(h), NEW g, LatestFirst(g), NEW at \in Int, NEW later \in Int,
         NEW a \in ToSet(ActiveObjects(h, at)),
         EventsOn(h, a.object) \subseteq ToSet(g),
         NEW e \in EventsOn(h, a.object), later - e.time <= ActiveObjectWindowDays * Day
  PROVE  LET after == ToSet(ActiveObjects(g, later))
         IN \/ \E b \in after : b.object = a.object
            \/ Cardinality(after) = MaxActiveObjects /\ \A b \in after : ~ Busier(a, b)
<1> DEFINE after == ToSet(ActiveObjects(g, later))
           o == a.object
           c == Activity(g, o)
<1>1. a \in ActiveIn(h, at)
  BY TheBusiestAreListed
<1>2. o \in ObjectsOf(h) /\ a = Activity(h, o)
  BY <1>1, ActivityIs DEF ActiveIn
<1>3. o \in ObjectsOf(g) /\ a.interaction_count <= c.interaction_count
      /\ a.last_activity <= c.last_activity
  BY <1>2, MoreSeenIsNoLess
<1>4. a.interaction_count \in Int /\ a.last_activity \in Int /\ a.last_activity >= e.time /\ e.time \in Int
  BY <1>2, ActivityIs
<1>5. c.object = o /\ c.interaction_count \in Int /\ c.last_activity \in Int
  BY <1>3, ActivityIs
<1>6. IsActive(c, later)
  <2>1. a.interaction_count >= MinActiveObjectInteractions
    BY <1>1 DEF ActiveIn, IsActive
  <2>2. c.interaction_count >= MinActiveObjectInteractions
    BY <2>1, <1>3, <1>4, <1>5 DEF MinActiveObjectInteractions
  <2>3. c.last_activity >= later - ActiveObjectWindowDays * Day
    BY <1>3, <1>4, <1>5 DEF ActiveObjectWindowDays, Day
  <2> QED BY <2>2, <2>3 DEF IsActive
<1>7. c \in ActiveIn(g, later)
  BY <1>3, <1>6 DEF ActiveIn
<1>8. CASE c \in after
  BY <1>5, <1>8
<1>9. CASE c \notin after
  <2>1. Cardinality(after) = MaxActiveObjects /\ \A b \in after : ~ Busier(c, b)
    BY <1>7, <1>9, TheBusiestAreListed
  <2>2. ASSUME NEW b \in after, Busier(a, b) PROVE FALSE
    <3>1. b \in ActiveIn(g, later)
      BY TheBusiestAreListed
    <3>2. b.interaction_count \in Int /\ b.last_activity \in Int
      BY <3>1, ActivityIs DEF ActiveIn
    <3>3. Busier(c, b)
      <4> HIDE DEF c, o, after
      <4> QED BY <2>2, <3>2, <1>3, <1>4, <1>5 DEF Busier
    <3> QED BY <3>3, <2>1
  <2> QED BY <2>1, <2>2
<1> QED BY <1>8, <1>9

\* An object that one answer lists is missing in the next only for a reason
\* (_detect_active_objects, over two calls of detect).
THEOREM ActiveObjectsStayHolds == Spec => ActiveObjectsStay
<1> DEFINE Stay ==
      LET after == ToSet(ActiveObjects(detected'.history, detected'.at))
      IN \A a \in ToSet(ActiveObjects(detected.history, detected.at)) :
           \/ \E b \in after : b.object = a.object
           \/ \A e \in ToSet(detected.history) : <<e.app, e.object>> = a.object
                 => detected'.at - e.time > ActiveObjectWindowDays * Day
           \/ \E e \in stored : <<e.app, e.object>> = a.object /\ e.time < detected'.since
           \/ Cardinality(after) = MaxActiveObjects /\ \A b \in after : ~ Busier(a, b)
<1>1. ASSUME UNCHANGED detected PROVE Stay
  BY <1>1
<1>2. ASSUME IInv, Return PROVE Stay
  <2> DEFINE h == detected.history
             g == reading.history
  <2>1. /\ detected'.history = g /\ detected'.since = reading.since /\ detected'.at = Now
        /\ reading.step = 2
    BY <1>2, ReadsAre DEF Return
  <2>2. LatestFirst(h) /\ LatestFirst(g) /\ ToSet(h) \subseteq stored
    BY <1>2 DEF IInv, ReadsAreStored
  <2>3. Now \in Int /\ detected.at \in Int /\ reading.since \in Int
    BY <1>2, ClockType DEF IInv, TypeOK, Readings, Detections
  <2>4. \A e \in ToSet(h) : e.time \in Int
    BY <2>2, DetectionAssumption DEF LatestFirst, ToSet
  <2> HIDE DEF h, g
  <2>5. SUFFICES
          ASSUME NEW a \in ToSet(ActiveObjects(h, detected.at)),
                 NEW e \in ToSet(h), <<e.app, e.object>> = a.object,
                 ~ (Now - e.time > ActiveObjectWindowDays * Day),
                 \A d \in stored : <<d.app, d.object>> = a.object => ~ (d.time < reading.since)
          PROVE  LET after == ToSet(ActiveObjects(g, Now))
                 IN \/ \E b \in after : b.object = a.object
                    \/ Cardinality(after) = MaxActiveObjects /\ \A b \in after : ~ Busier(a, b)
    BY <2>1 DEF h
  <2>6. EventsOn(h, a.object) \subseteq ToSet(g)
    <3>1. ASSUME NEW d \in EventsOn(h, a.object) PROVE d \in ToSet(g)
      <4>1. d \in ToSet(h) /\ d \in stored /\ <<d.app, d.object>> = a.object
        BY <2>2 DEF EventsOn
      <4>2. d.time >= reading.since
        BY <4>1, <2>3, <2>4, <2>5
      <4>3. reading.step >= 1
        BY <2>1
      <4> QED BY <4>1, <4>2, <4>3, <1>2 DEF IInv, ReadingCatchesUp, h, g
    <3> QED BY <3>1
  <2>7. e \in EventsOn(h, a.object) /\ Now - e.time <= ActiveObjectWindowDays * Day
    BY <2>3, <2>4, <2>5 DEF EventsOn, ActiveObjectWindowDays, Day
  <2> QED BY <2>2, <2>3, <2>6, <2>7, ListedObjectsStay
<1>3. IInv /\ [Next]_vars => [Stay]_vars
  <2> SUFFICES ASSUME IInv, Next PROVE Stay
    OBVIOUS
  <2>1. CASE Read
    BY <2>1, <1>1 DEF Read
  <2>2. CASE Return
    BY <2>2, <1>2
  <2>3. CASE Tick
    BY <2>3, <1>1 DEF Tick
  <2>4. ASSUME NEW e \in Events, WriteEvent(e) PROVE Stay
    BY <2>4, <1>1 DEF WriteEvent
  <2> HIDE DEF Stay
  <2> QED BY <2>1, <2>2, <2>3, <2>4 DEF Next
<1> HIDE DEF Stay
<1>4. Spec => [][Stay]_vars
  BY <1>3, InvariantHolds, PTL DEF Spec
<1> QED BY <1>4 DEF ActiveObjectsStay, Stay

=============================================================================
