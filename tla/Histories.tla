------------------------------ MODULE Histories ------------------------------
(***************************************************************************)
(* The history of one persona of a sample company, from its generation     *)
(* (samples/shops/framework.py, samples/data/patterns.py) over loading to  *)
(* what the pattern detector and the intent scorer derive from it.         *)
(*                                                                         *)
(* Personas do not interact, so the events of one are followed.  Days are  *)
(* numbered so that day 0 is a Monday; times are minutes since its         *)
(* midnight.                                                               *)
(***************************************************************************)
EXTENDS SampleShops, PatternDetector, IntentScorer

CONSTANTS
  Start, End,      \* the days between which events are generated
  MonthEnds,       \* the last calendar days of the months they touch
  VariedDays,      \* bound: days on which random choices differ
  UnevenDays,      \* bound: days on which the steps of a routine differ
  Between,         \* bound: random numbers besides the extremes of a range
  MaxOccurrences,  \* bound: occurrences of a routine on a day
  BatchSize,       \* the persona's share of a batch of the loader
  AskedAt,         \* when predictions are asked for
  MaxResults,      \* and how many
  Triggers         \* the sets of keywords in the trigger texts

ASSUME WindowAssumption ==
  /\ Start \in Int /\ End \in Int /\ VariedDays \subseteq Start .. End
  /\ MonthEnds \subseteq Int
  /\ MaxOccurrences \in Nat \ {0} /\ BatchSize \in Nat \ {0}
  /\ AskedAt \subseteq Int /\ MaxResults \in Nat

VARIABLES
  user,    \* <<key of the company, persona>>
  jobs,    \* how many of the user's jobs have been expanded
  events,  \* the generated events: in the order of expansion, at last sorted
  sorted,  \* whether they have been sorted and written to the file
  loaded   \* how many of the sorted events the engine has stored

historyVars == <<user, jobs, events, sorted, loaded>>

-----------------------------------------------------------------------------
(***************************************************************************)
(* The calendar.                                                           *)
(***************************************************************************)

IsWorkday(day) == day % 7 < 5
IsMonday(day) == day % 7 = 0

EveryDay == Start .. End
Workdays == {day \in EveryDay : IsWorkday(day)}
Mondays == {day \in EveryDay : IsMonday(day)}

\* From the last calendar day back to a workday.
LastWorkday(month_end) ==
  CHOOSE day \in month_end - 2 .. month_end :
    IsWorkday(day) /\ \A later \in day + 1 .. month_end : ~ IsWorkday(later)

MonthEndWorkdays == EveryDay \intersect {LastWorkday(month_end) : month_end \in MonthEnds}

DatesForCadence(cadence) ==
  CASE cadence = "daily"       -> EveryDay
    [] cadence = "weekday"     -> Workdays
    [] cadence = "weekly"      -> Mondays
    [] cadence = "monthly_end" -> MonthEndWorkdays

At(day, hour, minute, jitter) == day * Day + hour * 60 + minute + jitter

-----------------------------------------------------------------------------
(***************************************************************************)
(* Who there is, and what is expanded for each.                            *)
(***************************************************************************)

Companies == Shops \union {AcmeCorp}

PeopleOf(company) ==
  UNION {company.personas[type] : type \in DOMAIN company.personas}

Users == UNION {{company.key} \X PeopleOf(company) : company \in Companies}

CompanyOf(u) == CHOOSE company \in Companies : company.key = u[1]

RoutinesOf(u) ==
  LET all == CompanyOf(u).routines
  IN AtPlaces(all, {i \in DOMAIN all : u[2] \in all[i].personas})

LinksOf(u) ==
  LET all == CompanyOf(u).cross_app
  IN AtPlaces(all, {i \in DOMAIN all : all[i].persona = u[2]})

\* Each routine or link with each of its dates, one day after the other.
Dated(definitions) ==
  LET due   == UNION {{i} \X DatesForCadence(definitions[i].cadence) : i \in DOMAIN definitions}
      order == InOrder(due, [job \in due |-> job])
  IN [k \in DOMAIN order |-> [of |-> definitions[order[k][1]], day |-> order[k][2]]]

RoutineJobs == [u \in Users |-> Dated(RoutinesOf(u))]
LinkJobs == [u \in Users |-> Dated(LinksOf(u))]

-----------------------------------------------------------------------------
(***************************************************************************)
(* Generation.                                                             *)
(***************************************************************************)

\* A random number, which is varied on some days.
Drawn(range, day) ==
  IF day \in VariedDays
  THEN {range[1], range[2]} \union (Between \intersect (range[1] .. range[2]))
  ELSE {range[1]}

Capped(n) == IF n <= MaxOccurrences THEN n ELSE MaxOccurrences

\* The steps of several occurrences, which are one number on an even day.
StepsOf(routine, count, day) ==
  LET among(numbers) == [1 .. count -> [2 .. Len(routine.activities) -> numbers]]
      drawn == Drawn(routine.steps, day)
  IN IF day \in UnevenDays THEN among(drawn) ELSE UNION {among({step}) : step \in drawn}

\* The times of so many activities, with a step before each but the first.
TimesFrom(moment, steps, count) ==
  LET time[k \in 1 .. count] == IF k = 1 THEN moment ELSE time[k - 1] + steps[k]
  IN time

\* One pass over the activities; corr is the correlation id.
Occurrence(routine, moment, steps) ==
  LET times == TimesFrom(moment, steps, Len(routine.activities))
  IN [k \in DOMAIN routine.activities |->
        [app |-> routine.module, action |-> routine.activities[k],
         time |-> times[k], corr |-> <<>>]]

\* A routine on one day, each occurrence with a jitter and steps of its own.
EmitRoutine ==
  /\ jobs < Len(RoutineJobs[user])
  /\ LET job     == RoutineJobs[user][jobs + 1]
         routine == job.of
         jitters == Drawn(<<- routine.jitter, routine.jitter>>, job.day)
         moment(jitter) == At(job.day, routine.hour, routine.minute, jitter)
     IN \E count \in Drawn(routine.occurrences, job.day) :
          \E jitter \in [1 .. Capped(count) -> jitters],
             steps \in StepsOf(routine, Capped(count), job.day) :
            events' = events \o FlattenSeq([k \in 1 .. Capped(count) |->
                                    Occurrence(routine, moment(jitter[k]), steps[k])])
  /\ jobs' = jobs + 1
  /\ UNCHANGED <<user, sorted, loaded>>

\* The two events of a link, of one correlation id.
Pair(link, day, moment, gap) ==
  LET step(s, time) ==
        [app |-> s[1], action |-> s[2], time |-> time, corr |-> <<link.name, day>>]
  IN <<step(link.first, moment), step(link.then, moment + gap)>>

\* A link on one day, which is left out with some probability.
EmitCrossApp ==
  /\ jobs \in Len(RoutineJobs[user]) .. Len(RoutineJobs[user]) + Len(LinkJobs[user]) - 1
  /\ LET job  == LinkJobs[user][jobs - Len(RoutineJobs[user]) + 1]
         link == job.of
     IN \/ UNCHANGED events
        \/ \E jitter \in Drawn(<<- link.jitter, link.jitter>>, job.day),
              gap \in Drawn(link.gap, job.day) :
             events' = events \o Pair(link, job.day,
                                      At(job.day, link.hour, link.minute, jitter), gap)
  /\ jobs' = jobs + 1
  /\ UNCHANGED <<user, sorted, loaded>>

\* events.sort at the end of generate_shop_events
Finish ==
  /\ jobs = Len(RoutineJobs[user]) + Len(LinkJobs[user])
  /\ ~ sorted
  /\ sorted' = TRUE
  /\ events' = Ordered(events)
  /\ UNCHANGED <<user, jobs, loaded>>

-----------------------------------------------------------------------------
(***************************************************************************)
(* Loading, batch after batch.                                             *)
(***************************************************************************)

Load ==
  /\ sorted /\ loaded < Len(events)
  /\ loaded' = IF loaded + BatchSize < Len(events) THEN loaded + BatchSize ELSE Len(events)
  /\ UNCHANGED <<user, jobs, events, sorted>>

Complete == sorted /\ loaded = Len(events)

HistoryInit ==
  /\ user \in Users
  /\ jobs = 0
  /\ events = <<>>
  /\ sorted = FALSE
  /\ loaded = 0

Done == Complete /\ UNCHANGED historyVars

HistoryNext == EmitRoutine \/ EmitCrossApp \/ Finish \/ Load \/ Done

HistorySpec == HistoryInit /\ [][HistoryNext]_historyVars

-----------------------------------------------------------------------------
(***************************************************************************)
(* What the engine reads of it.                                            *)
(***************************************************************************)

\* USER_HISTORY over all applications: the latest first.  The order of
\* events of one time is the database's, here by either order of storing.
HistorySince(since, oldest_first) ==
  LET recent == {i \in 1 .. loaded : events[i].time >= since}
      key(i) == <<- events[i].time, IF oldest_first THEN i ELSE - i>>
      order  == InOrder(recent, [i \in recent |-> key(i)])
  IN [k \in DOMAIN order |-> events[order[k]]]

\* The histories that a profile of all events and a prediction are made of.
ProfileHistories == {HistorySince(Start * Day, tie) : tie \in BOOLEAN}
RecentHistories(now) == {HistorySince(now - 14 * Day, tie) : tie \in BOOLEAN}

-----------------------------------------------------------------------------
(***************************************************************************)
(* Properties.                                                             *)
(***************************************************************************)

\* The occurrences of a link.
Fired(link) == {e.corr : e \in {e \in ToSet(events) : e.corr # <<>> /\ e.corr[1] = link.name}}

\* A link that was expanded on enough days is in the profile text, as a
\* sequence that always follows its trigger and within the link's own gap,
\* whatever else the persona does (_emit_cross_app, _detect_sequences,
\* _build_sequence, _strong_sequences).
LinksSurface ==
  Complete =>
    \A link \in ToSet(LinksOf(user)), history \in ProfileHistories :
      Cardinality(Fired(link)) >= 2 =>
        \E s \in StrongSequences(Sequences(history)) :
          /\ <<s.trigger_app, s.trigger_action>> = link.first
          /\ <<s.follow_app, s.follow_action>> = link.then
          /\ s.confidence = 100
          /\ s.typical_gap \in link.gap[1] .. link.gap[2]

\* What follows an action in different ways shares its confidence, in every
\* history that was generated (_detect_sequences, _build_sequence).
SuccessorsAreShared ==
  sorted => \A history \in ProfileHistories : ConfidencesAreShared(Sequences(history))

\* What a routine does.
UsesOf(routine, k, history) == Uses(history, routine.module, routine.activities[k])
FrequencyOf(routine, k, history) ==
  ActionPattern(history, routine.module, routine.activities[k]).frequency

\* What is done on every workday is called daily, although the random hours
\* move the average gap and links add uses (_dates_for_cadence,
\* classify_frequency).
WeekdayRoutinesAreDaily ==
  Complete =>
    \A routine \in ToSet(RoutinesOf(user)), history \in ProfileHistories :
      routine.cadence = "weekday" =>
        \A k \in DOMAIN routine.activities :
          /\ DoneOnWorkdays(history, UsesOf(routine, k, history), Start, End)
          /\ FrequencyOf(routine, k, history) = "daily"

\* What is done in every week is called weekly, although the window ends on a
\* Monday (_dates_for_cadence, classify_frequency).
WeeklyRoutinesAreWeekly ==
  Complete =>
    \A routine \in ToSet(RoutinesOf(user)), history \in ProfileHistories :
      routine.cadence = "weekly" /\ routine.occurrences = Once =>
        \A k \in DOMAIN routine.activities :
          /\ DoneWeekly(history, UsesOf(routine, k, history), 0, (Start + 6) \div 7, End \div 7)
          /\ FrequencyOf(routine, k, history) = "weekly"

\* The routines are done when their cadence says, and called by it
\* (_dates_for_cadence, classify_frequency).
CadenceIsRecovered == WeekdayRoutinesAreDaily /\ WeeklyRoutinesAreWeekly

\* Every use of an action counts for its prediction, whatever was generated
\* (_group_by_action_type, _score_candidate).
EveryUseCounts ==
  Complete =>
    \A now \in AskedAt : \A history \in RecentHistories(now), keywords \in Triggers :
      EveryUseCountsIn(history, keywords, now)

\* The predictions are the best of the history, in each state of loading it
\* (IntentScorer.score).
PredictionsAreTheBest ==
  sorted =>
    \A now \in AskedAt : \A history \in RecentHistories(now), keywords \in Triggers :
      PredictionsAreTheBestOf(history, keywords, now, MaxResults)

=============================================================================
