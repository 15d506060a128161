--------------------------- MODULE PatternDetector ---------------------------
(***************************************************************************)
(* What profiler/pattern_detector.py and temporal.py derive from a user's  *)
(* history: how often an action recurs, which action in one application    *)
(* follows one in another, and what a profile text says of it.             *)
(*                                                                         *)
(* A history is a sequence of events, records with app, action and time    *)
(* (in minutes), in the order in which the database returned them.  A      *)
(* confidence is in hundredths, as it is rounded by the code.              *)
(***************************************************************************)
EXTENDS Integers, Sequences, FiniteSets, SequencesExt, Rankings

Day == 24 * 60

SequenceGapMinutes == 30
MinSequenceOccurrences == 2

-----------------------------------------------------------------------------
(***************************************************************************)
(* Temporal heuristics.                                                    *)
(***************************************************************************)

\* Bug: an average above a day is no longer daily.
BugCadence(span, gaps) ==
  IF span <= Day * gaps THEN "daily"
  ELSE IF span <= 10 * Day * gaps THEN "weekly"
  ELSE IF span <= 45 * Day * gaps THEN "monthly" ELSE "sporadic"

\* By the average gap: at most 1.5, 10 or 45 days.
Cadence(span, gaps) ==
  IF 2 * span <= 3 * Day * gaps THEN "daily"
  ELSE IF span <= 10 * Day * gaps THEN "weekly"
  ELSE IF span <= 45 * Day * gaps THEN "monthly" ELSE "sporadic"

\* The label of classify_frequency, for that many uses at these times.
ClassifyFrequency(count, times) ==
  LET span == Max(times) - Min(times)
  IN IF count < 2 \/ span = 0 THEN "sporadic" ELSE Cadence(span, count - 1)

-----------------------------------------------------------------------------
(***************************************************************************)
(* Recurring actions.                                                      *)
(***************************************************************************)

\* Where an action is in the history.
Uses(events, app, action) ==
  {i \in DOMAIN events : events[i].app = app /\ events[i].action = action}

ActionPattern(events, app, action) ==
  LET uses  == Uses(events, app, action)
      count == Cardinality(uses)
  IN [app |-> app, action_type |-> action, count_in_period |-> count,
      frequency |-> ClassifyFrequency(count, {events[i].time : i \in uses})]

DayOf(time) == time \div Day

\* What is promised a cadence for.  Something is done on every workday between
\* two days, at any hour and any number of times, and not before or after them.
DoneOnWorkdays(events, uses, first, last) ==
  /\ \A i \in uses : DayOf(events[i].time) \in first .. last
  /\ \A day \in first .. last : day % 7 < 5 => \E i \in uses : DayOf(events[i].time) = day

\* Something is done in every week between two weeks, on one day of the week,
\* at any hour, and at most twice.
DoneWeekly(events, uses, weekday, first, last) ==
  LET on(i, week) == DayOf(events[i].time) = 7 * week + weekday
  IN /\ \A i \in uses : \E week \in first .. last : on(i, week)
     /\ \A week \in first .. last : \E i \in uses : on(i, week)
     /\ \A week \in first .. last : \A i, j, k \in uses :
          on(i, week) /\ on(j, week) /\ on(k, week) => i = j \/ j = k \/ i = k

-----------------------------------------------------------------------------
(***************************************************************************)
(* Cross-application sequences.                                            *)
(***************************************************************************)

\* Stable, as Python's sorted is.
Ordered(events) ==
  LET order == InOrder(DOMAIN events, [i \in DOMAIN events |-> <<events[i].time, i>>])
  IN [k \in DOMAIN order |-> events[order[k]]]

\* _cross_app_gap_minutes is not None.
CrossesApps(previous, current) ==
  /\ previous.app # current.app
  /\ current.time - previous.time \in 0 .. SequenceGapMinutes

\* Bug: every later event within the window counts as a follower.
BugTransitions(ordered) ==
  {p \in (DOMAIN ordered) \X (DOMAIN ordered) :
     p[1] < p[2] /\ CrossesApps(ordered[p[1]], ordered[p[2]])}

\* The pairs of neighbours that are a transition.
Transitions(ordered) ==
  {<<i, i + 1>> : i \in {k \in 1 .. Len(ordered) - 1 : CrossesApps(ordered[k], ordered[k + 1])}}

KeyOf(ordered, p) ==
  <<ordered[p[1]].app, ordered[p[1]].action, ordered[p[2]].app, ordered[p[2]].action>>

Occurrences(ordered, key) == {p \in Transitions(ordered) : KeyOf(ordered, p) = key}

Gap(ordered, p) == ordered[p[2]].time - ordered[p[1]].time

\* describe_gap: the upper median of the gaps, and at least a minute.
DescribeGap(ordered, found) ==
  LET upto(g)   == Cardinality({p \in found : Gap(ordered, p) <= g})
      median    == Min({g \in {Gap(ordered, p) : p \in found} : upto(g) > Cardinality(found) \div 2})
  IN IF median < 1 THEN 1 ELSE median

\* round(min(count / total, 1.0), 2) in hundredths, halves to even.
Confidence(count, total) ==
  LET below == (100 * count) \div total
      rest  == 2 * ((100 * count) % total)
  IN CASE count >= total                             -> 100
       [] count < total /\ rest > total              -> below + 1
       [] count < total /\ rest = total              -> below + (below % 2)
       [] OTHER                                      -> below

\* _build_sequence; the second argument to Confidence is action_totals of the
\* trigger.
Sequence(ordered, key) ==
  LET found == Occurrences(ordered, key)
  IN [trigger_app |-> key[1], trigger_action |-> key[2],
      follow_app |-> key[3], follow_action |-> key[4],
      typical_gap |-> DescribeGap(ordered, found),
      confidence |-> Confidence(Cardinality(found), Cardinality(Uses(ordered, key[1], key[2])))]

\* Bug: more than the minimum is asked for.
BugRecurs(count) == count > MinSequenceOccurrences

Recurs(count) == count >= MinSequenceOccurrences

\* _detect_sequences, without the order by confidence.
Keys(ordered) ==
  {key \in {KeyOf(ordered, p) : p \in Transitions(ordered)} :
     Recurs(Cardinality(Occurrences(ordered, key)))}

Sequences(events) ==
  LET ordered == Ordered(events)
  IN {Sequence(ordered, key) : key \in Keys(ordered)}

\* What is promised: an occurrence of a trigger has one successor, so that the
\* different ways to go on from an action share its confidence, but for the
\* rounding (_detect_sequences counts only neighbours, _build_sequence divides
\* by all occurrences of the trigger).
ConfidencesAreShared(sequences) ==
  \A s \in sequences :
    LET alike == {t \in sequences : /\ t.trigger_app = s.trigger_app
                                   /\ t.trigger_action = s.trigger_action}
    IN MapThenSumSet(LAMBDA t : t.confidence, alike) <= 100 + Cardinality(alike)

\* What the profile text mentions (_strong_sequences): at most three, the most
\* confident first.  The order of the sequences of one confidence is left
\* open: these are the ones that are mentioned in every order.
MaxSequences == 3

StrongSequences(sequences) ==
  LET rivals(s) == {t \in sequences \ {s} : t.confidence >= s.confidence}
  IN {s \in sequences : s.confidence >= 30 /\ Cardinality(rivals(s)) < MaxSequences}

=============================================================================
