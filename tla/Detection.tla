------------------------------ MODULE Detection ------------------------------
(***************************************************************************)
(* PatternDetector.detect beside the events of its user: two reads, and    *)
(* what is derived of them and of the clock (profiler/pattern_detector.py, *)
(* temporal.py): typical hours, parameter defaults, active objects.        *)
(*                                                                         *)
(* Times are minutes.  An event also has an id, its object and the         *)
(* metadata that came with it, a function from names to JSON values.  A    *)
(* value is <<its JSON type, its text in Python>>.                         *)
(***************************************************************************)
EXTENDS PatternDetector

CONSTANTS
  Events,           \* the user's events
  Moments,          \* bound: the times at which the clock is looked at, ascending
  MaxActiveObjects  \* _MAX_ACTIVE_OBJECTS

ASSUME DetectionAssumption ==
  /\ MaxActiveObjects \in Nat \ {0}
  /\ Moments \in Seq(Int) /\ Len(Moments) > 0
  /\ \A k, l \in 1 .. Len(Moments) : k < l => Moments[k] < Moments[l]
  /\ \A e \in Events : e.id \in Int /\ e.time \in Int
  /\ \A e, f \in Events : e.id = f.id => e = f

ProfilingWindowDays == 180
ActiveObjectWindowDays == 14
MinActiveObjectInteractions == 2

VARIABLES
  tick,      \* how many of the moments have come
  stored,    \* the events in the graph
  reading,   \* what a detection has read: step, history, since, total
  detected   \* what the last one was made of: history, since, total, at

vars == <<tick, stored, reading, detected>>

Now == Moments[tick]

-----------------------------------------------------------------------------
(***************************************************************************)
(* The reads.                                                              *)
(***************************************************************************)

\* Bug: the events are returned oldest first.
BugByTime(S, oldest_first) ==
  InOrder(S, [e \in S |-> <<e.time, IF oldest_first THEN e.id ELSE - e.id>>])

\* The latest first; the order of those of one time is the database's.
ByTime(S, oldest_first) ==
  InOrder(S, [e \in S |-> <<- e.time, IF oldest_first THEN e.id ELSE - e.id>>])

WindowStart == Now - ProfilingWindowDays * Day

\* USER_HISTORY
UserHistory(oldest_first) == ByTime({e \in stored : e.time >= WindowStart}, oldest_first)

\* USER_EVENT_COUNT
UserEventCount == Cardinality(stored)

\* Bug: the count is read first.
BugReads == <<"count", "history">>

Reads == <<"history", "count">>

\* The next of the transactions of detect.
Read ==
  /\ reading.step < Len(Reads)
  /\ \/ /\ Reads[reading.step + 1] = "history"
        /\ \E oldest_first \in BOOLEAN :
             reading' = [step |-> reading.step + 1, history |-> UserHistory(oldest_first),
                         since |-> WindowStart, total |-> reading.total]
     \/ /\ Reads[reading.step + 1] = "count"
        /\ reading' = [step |-> reading.step + 1, history |-> reading.history,
                       since |-> reading.since, total |-> UserEventCount]
  /\ UNCHANGED <<tick, stored, detected>>

Unread == [step |-> 0, history |-> <<>>, since |-> 0, total |-> 0]

\* Both reads are made: UserPatterns is derived and returned.
Return ==
  /\ reading.step = Len(Reads)
  /\ detected' = [history |-> reading.history, since |-> reading.since,
                  total |-> reading.total, at |-> Now]
  /\ reading' = Unread
  /\ UNCHANGED <<tick, stored>>

-----------------------------------------------------------------------------
(***************************************************************************)
(* What is derived.                                                        *)
(***************************************************************************)

\* Counter.most_common(1) of the values at some places: of the most common the
\* one that comes first.
MostCommon(value) ==
  LET times(v) == Cardinality({i \in DOMAIN value : value[i] = v})
  IN value[CHOOSE i \in DOMAIN value :
             \A j \in DOMAIN value :
               \/ times(value[j]) < times(value[i])
               \/ times(value[j]) = times(value[i]) /\ i <= j]

HourOf(time) == (time \div 60) % 24

\* describe_time_of_day
TypicalHour(events, app, action) ==
  MostCommon([i \in Uses(events, app, action) |-> HourOf(events[i].time)])

\* Lists, objects and null are no value of a parameter.
GivesParameter(e, name) ==
  name \in DOMAIN e.metadata /\ e.metadata[name][1] \in {"string", "number", "boolean"}

\* Where an action gives a parameter: in whichever application.
ParameterUses(events, action, name) ==
  {i \in DOMAIN events : events[i].action = action /\ GivesParameter(events[i], name)}

\* str(value)
TextOf(e, name) == e.metadata[name][2]

\* _detect_parameter_defaults, for one action and parameter that has uses.
ParameterDefault(events, action, name) ==
  MostCommon([i \in ParameterUses(events, action, name) |-> TextOf(events[i], name)])

ObjectsOf(events) == {<<e.app, e.object>> : e \in ToSet(events)}

TouchesOf(events, o) == {i \in DOMAIN events : <<events[i].app, events[i].object>> = o}

\* Bug: the last event that is looked at gives the last activity.
BugActivity(events, o) ==
  LET touches == TouchesOf(events, o)
  IN [object |-> o, interaction_count |-> Cardinality(touches),
      last_activity |-> events[Max(touches)].time]

\* An entry of stats.
Activity(events, o) ==
  LET touches == TouchesOf(events, o)
  IN [object |-> o, interaction_count |-> Cardinality(touches),
      last_activity |-> Max({events[i].time : i \in touches})]

Busier(a, b) ==
  \/ a.interaction_count > b.interaction_count
  \/ a.interaction_count = b.interaction_count /\ a.last_activity > b.last_activity

IsActive(a, at) ==
  /\ a.last_activity >= at - ActiveObjectWindowDays * Day
  /\ a.interaction_count >= MinActiveObjectInteractions

\* _detect_active_objects: the busiest, and of equals those that come first in
\* the history.
ActiveObjects(events, at) ==
  LET active == {a \in {Activity(events, o) : o \in ObjectsOf(events)} : IsActive(a, at)}
      key(a)  == <<- a.interaction_count, - a.last_activity, Min(TouchesOf(events, a.object))>>
      ranked  == InOrder(active, [a \in active |-> key(a)])
  IN SubSeq(ranked, 1, IF Len(ranked) < MaxActiveObjects THEN Len(ranked) ELSE MaxActiveObjects)

-----------------------------------------------------------------------------
(***************************************************************************)
(* The user, and time.                                                     *)
(***************************************************************************)

\* WRITE_EVENT, in whatever order, also long after the event.
WriteEvent(e) ==
  /\ e \notin stored /\ e.time <= Now
  /\ stored' = stored \union {e}
  /\ UNCHANGED <<tick, reading, detected>>

Tick ==
  /\ tick < Len(Moments)
  /\ tick' = tick + 1
  /\ UNCHANGED <<stored, reading, detected>>

Init ==
  /\ tick = 1
  /\ stored = {}
  /\ reading = Unread
  /\ detected = [history |-> <<>>, since |-> WindowStart, total |-> 0, at |-> Now]

Next == Read \/ Return \/ Tick \/ \E e \in Events : WriteEvent(e)

Spec == Init /\ [][Next]_vars

-----------------------------------------------------------------------------
(***************************************************************************)
(* Properties.                                                             *)
(***************************************************************************)

\* The total that a profile gives is no less than the number of events its
\* patterns count, whatever is written between the two reads (detect).
TotalCoversPatterns == detected.total >= Len(detected.history)

\* v is what uses point to, given the value of each: no value is more common,
\* and none that is as common was used later.
IsHabit(v, value) ==
  LET with(w) == {e \in DOMAIN value : value[e] = w}
      last(w) == Max({e.time : e \in with(w)})
  IN /\ with(v) # {}
     /\ \A w \in {value[e] : e \in DOMAIN value} :
          \/ Cardinality(with(v)) > Cardinality(with(w))
          \/ Cardinality(with(v)) = Cardinality(with(w)) /\ last(v) >= last(w)

\* The hour of an action, and the default of a parameter, are the habit: a value
\* that was used as often as the old one replaces it at once, in whatever order
\* the events arrived (most_common takes the first of equals, USER_HISTORY
\* returns the latest first).
HabitsFollowUse ==
  LET history == detected.history
      seen    == ToSet(history)
      acts(app, action)   == {e \in seen : e.app = app /\ e.action = action}
      gives(action, name) == {e \in seen : e.action = action /\ GivesParameter(e, name)}
  IN \A e \in seen :
       /\ IsHabit(TypicalHour(history, e.app, e.action),
                  [f \in acts(e.app, e.action) |-> HourOf(f.time)])
       /\ \A name \in DOMAIN e.metadata :
            gives(e.action, name) # {} =>
              IsHabit(ParameterDefault(history, e.action, name),
                      [f \in gives(e.action, name) |-> TextOf(f, name)])

\* An object that one answer lists is missing in the next only if it had been
\* quiet for two weeks, or an interaction with it has left the profiling
\* window, or as many objects as can be listed are all at least as busy as it
\* was (_detect_active_objects, over two calls of detect).
ActiveObjectsStay ==
  [][LET after == ToSet(ActiveObjects(detected'.history, detected'.at))
     IN \A a \in ToSet(ActiveObjects(detected.history, detected.at)) :
          \/ \E b \in after : b.object = a.object
          \/ \A e \in ToSet(detected.history) : <<e.app, e.object>> = a.object
                => detected'.at - e.time > ActiveObjectWindowDays * Day
          \/ \E e \in stored : <<e.app, e.object>> = a.object /\ e.time < detected'.since
          \/ Cardinality(after) = MaxActiveObjects /\ \A b \in after : ~ Busier(a, b)
    ]_vars

=============================================================================
