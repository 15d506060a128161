----------------------------- MODULE IntentScorer -----------------------------
(***************************************************************************)
(* prediction/scorer.py and keyword_table.py: the actions of a user's      *)
(* recent history, ranked by how well they match the trigger text, how     *)
(* recent and how frequent they are.                                       *)
(*                                                                         *)
(* A confidence is in units of 1/10000, to which the code rounds it.  The  *)
(* exponential decay is abstracted to whole half-lives.                    *)
(***************************************************************************)
EXTENDS Integers, Sequences, FiniteSets, SequencesExt, Rankings

HalfLife == 3 * 24 * 60

\* Keywords are matched as prefixes of words; which of them a trigger text
\* contains is an input.
KeywordTable ==
  [sprint    |-> {"view_sprint_board", "close_sprint", "create_sprint"},
   review    |-> {"submit_performance_review", "view_performance_review"},
   leave     |-> {"approve_leave_request", "submit_leave_request", "view_leave_balance"},
   bug       |-> {"log_bug", "update_issue_status", "view_issue"},
   timesheet |-> {"submit_timesheet", "approve_timesheet", "view_timesheet"},
   travel    |-> {"create_travel_request", "submit_expense_report"},
   expense   |-> {"submit_expense_report", "approve_expense_report"},
   hire      |-> {"create_requisition", "review_application", "schedule_interview"},
   candidate |-> {"review_application", "shortlist_candidate"},
   deploy    |-> {"create_release", "merge_pull_request"},
   incident  |-> {"create_incident", "escalate_incident", "resolve_incident"}]

Matches(keywords) == UNION {KeywordTable[k] : k \in keywords}

\* The records of an action type: a candidate.
Records(history, action) == {i \in DOMAIN history : history[i].action = action}

Candidates(history) == {history[i].action : i \in DOMAIN history}

Count(history, action) == Cardinality(Records(history, action))

FirstRecord(history, action) == Min(Records(history, action))

\* Bug: whichever record comes last is taken for the most recent.
BugMostRecent(history, action) == history[Max(Records(history, action))]

\* The latest record, the first of several of one time.
MostRecent(history, action) ==
  history[CHOOSE i \in Records(history, action) :
            \A j \in Records(history, action) :
              \/ history[j].time < history[i].time
              \/ history[j].time = history[i].time /\ i <= j]

KeywordScore(action, keywords) == IF action \in Matches(keywords) THEN 4000 ELSE 0

RecencyScore(age) == 3000 \div 2 ^ ((IF age < 0 THEN 0 ELSE age) \div HalfLife)

FrequencyScore(count) == 600 * (IF count < 5 THEN count ELSE 5)

\* _score_candidate
Score(history, action, keywords, now) ==
  LET newest == MostRecent(history, action)
  IN [actionType |-> action, applicationId |-> newest.app,
      confidence |-> KeywordScore(action, keywords)
                       + RecencyScore(now - newest.time)
                       + FrequencyScore(Count(history, action))]

\* Bug: the list is sorted, but from the least confident on.
BugRanked(history, scores) ==
  InOrder(scores, [p \in scores |-> <<p.confidence, FirstRecord(history, p.actionType)>>])

\* The most confident first, and those of one confidence in the order of their
\* first records, as they were grouped.
Ranked(history, scores) ==
  InOrder(scores, [p \in scores |-> <<- p.confidence, FirstRecord(history, p.actionType)>>])

Scores(history, keywords, now) ==
  {Score(history, action, keywords, now) : action \in Candidates(history)}

\* IntentScorer.score
Predictions(history, keywords, now, max_results) ==
  LET ranked == Ranked(history, Scores(history, keywords, now))
  IN SubSeq(ranked, 1, IF Len(ranked) < max_results THEN Len(ranked) ELSE max_results)

-----------------------------------------------------------------------------
(***************************************************************************)
(* What is promised for every history.                                     *)
(***************************************************************************)

\* An action of the history is predicted with at least the confidence that
\* any single event of it would give: neither older nor other events take
\* anything away (_group_by_action_type, _score_candidate).
EveryUseCountsIn(history, keywords, now) ==
  \A i \in DOMAIN history :
    LET action == history[i].action
    IN Score(history, action, keywords, now).confidence
         >= Score(<<history[i]>>, action, keywords, now).confidence

\* As many predictions as were asked for and the history has actions, no
\* action twice, the best first, and none left out that would be better
\* (IntentScorer.score).
PredictionsAreTheBestOf(history, keywords, now, max_results) ==
  LET made   == Predictions(history, keywords, now, max_results)
      chosen == {p.actionType : p \in ToSet(made)}
  IN /\ chosen \subseteq Candidates(history)
     /\ Cardinality(chosen) = Len(made)
     /\ Len(made) = max_results \/ chosen = Candidates(history)
     /\ \A i, j \in DOMAIN made : i < j => made[i].confidence >= made[j].confidence
     /\ \A action \in Candidates(history) \ chosen, p \in ToSet(made) :
          p.confidence >= Score(history, action, keywords, now).confidence

=============================================================================
