--------------------------- MODULE ProfileScheduler ---------------------------
(***************************************************************************)
(* The profiles of one tenant's users: runs of the scheduler, which write  *)
(* a text and a version on the nodes of every active user, and the profile *)
(* route, which reads them, while events arrive.                           *)
(*                                                                         *)
(* A run is a process of its own, started on a schedule or by hand.  Every *)
(* read and write of the graph is a transaction and a step.  A profile's   *)
(* text is abstracted to the history that it was generated from; the       *)
(* profiling window of 180 days holds every event.                         *)
(***************************************************************************)
EXTENDS Integers, FiniteSets

CONSTANTS Nodes,      \* the User nodes that may come to exist
          IdOf,       \* the nativeUserId of each, which other nodes may share
          Events,     \* the events that may be ingested
          ActorOf,    \* the node of each
          Runs,       \* the runs of the scheduler
          MinEvents   \* profile_min_events_to_generate, 10 by default

UserIds == {IdOf[n] : n \in Nodes}

\* UserIds are numbers because the scheduler takes them in order.
ASSUME ProfileAssumption ==
  /\ IdOf \in [Nodes -> Nat]
  /\ ActorOf \in [Events -> Nodes]
  /\ MinEvents \in Nat
  /\ IsFiniteSet(Nodes)
  /\ IsFiniteSet(Events)

VARIABLES performed,   \* the events in the graph
          active,      \* the nodes whose lastSeen is within seven days
          profile,     \* nlqProfile and profileVersion of each node
          run,         \* where each run is
          due,         \* history: the events that users with a claim to a
                       \* profile had when each run began
          overlapped,  \* history: have two runs been under way at one time?
          request      \* one client's request of a profile, and the last answer

graphVars == <<performed, active, profile>>
vars == <<performed, active, profile, run, due, overlapped, request>>

NoProfile == [version |-> 0, text |-> {}]

RunStages == {"idle", "history", "count", "version", "write", "done", "failed"}

NoUser == -1

\* A run that is to turn to the next user, or has not begun, or has ended.
At(stage, todo) == [stage |-> stage, todo |-> todo, seen |-> {}, version |-> 0]

TypeOK ==
  /\ performed \subseteq Events
  /\ active \subseteq Nodes
  /\ profile \in [Nodes -> [version : Nat, text : SUBSET Events]]
  /\ run \in [Runs -> [stage : RunStages, todo : SUBSET UserIds,
                       seen : SUBSET Events, version : Nat]]
  /\ \A r \in Runs : run[r].stage = "write" <=> run[r].version > 0
  /\ due \in [Runs -> [UserIds -> SUBSET Events]]
  /\ overlapped \in BOOLEAN
  /\ request \in [stage : {"none", "history", "count", "stored"},
                  user : UserIds \union {NoUser},
                  answered : [UserIds -> Nat]]   \* the version last answered

Init ==
  /\ performed = {}
  /\ active = {}
  /\ profile = [n \in Nodes |-> NoProfile]
  /\ run = [r \in Runs |-> At("idle", {})]
  /\ due = [r \in Runs |-> [id \in UserIds |-> {}]]
  /\ overlapped = FALSE
  /\ request = [stage |-> "none", user |-> NoUser, answered |-> [id \in UserIds |-> 0]]

-----------------------------------------------------------------------------
(***************************************************************************)
(* The graph.                                                              *)
(***************************************************************************)

Exists(n) == \E e \in performed : ActorOf[e] = n

\* USER_HISTORY, and what USER_EVENT_COUNT counts: a nativeUserId in any
\* application.
EventsOf(id) == {e \in performed : IdOf[ActorOf[e]] = id}

\* profile_min_events_to_generate
TooFew(id) == Cardinality(EventsOf(id)) < MinEvents

\* Bug: GET_USER_PROFILE without nlqProfile IS NOT NULL.
BugStored(id) ==
  {profile[n] : n \in {m \in Nodes : IdOf[m] = id /\ Exists(m)}}

\* GET_USER_PROFILE: LIMIT 1 without an order, of the nodes that have a profile.
Stored(id) ==
  LET found == {profile[n] : n \in {m \in Nodes : IdOf[m] = id /\ profile[m].version > 0}}
  IN IF found = {} THEN {NoProfile} ELSE found

\* Bug: only the active nodes of the user are updated.
BugUpdated(id, new) ==
  [n \in Nodes |-> IF IdOf[n] = id /\ n \in active THEN new ELSE profile[n]]

\* UPDATE_USER_PROFILE
Updated(id, new) == [n \in Nodes |-> IF IdOf[n] = id /\ Exists(n) THEN new ELSE profile[n]]

\* ACTIVE_USERS
ActiveUsers == {IdOf[n] : n \in active}

\* The event may be one of long ago, which leaves lastSeen alone.
WriteEvent(e) ==
  /\ e \notin performed
  /\ performed' = performed \union {e}
  /\ active' \in {active, active \union {ActorOf[e]}}
  /\ UNCHANGED <<profile, run, due, overlapped, request>>

\* Seven days without an event.
GoQuiet(n) ==
  /\ n \in active
  /\ active' = active \ {n}
  /\ UNCHANGED <<performed, profile, run, due, overlapped, request>>

-----------------------------------------------------------------------------
(***************************************************************************)
(* A run: run_once and _generate_for_user.                                 *)
(***************************************************************************)

UnderWay(r) == run[r].stage \notin {"idle", "done", "failed"}

\* ORDER BY userId
Least(ids) == CHOOSE id \in ids : \A other \in ids : id <= other

UserOf(r) == Least(run[r].todo)

Begin(r) ==
  /\ run[r].stage = "idle"
  /\ run' = [run EXCEPT ![r] = At("history", ActiveUsers)]
  /\ due' = [due EXCEPT ![r] = [id \in UserIds |->
                IF id \in ActiveUsers /\ ~TooFew(id) THEN EventsOf(id) ELSE {}]]
  /\ overlapped' = (overlapped \/ \E s \in Runs : UnderWay(s))
  /\ UNCHANGED <<graphVars, request>>

ReadHistory(r) ==
  /\ run[r].stage = "history"
  /\ run[r].todo # {}
  /\ run' = [run EXCEPT ![r].stage = "count", ![r].seen = EventsOf(UserOf(r))]
  /\ UNCHANGED <<graphVars, due, overlapped, request>>

Left(r) == run[r].todo \ {UserOf(r)}

\* Bug: a user with too few events ends the loop.
BugAfterSkip(r) == At("history", {})

AfterSkip(r) == At("history", Left(r))

\* The rest of detect, and the text: of a user with too few events, none.
ReadCount(r) ==
  /\ run[r].stage = "count"
  /\ run' = IF TooFew(UserOf(r)) THEN [run EXCEPT ![r] = AfterSkip(r)] ELSE [run EXCEPT ![r].stage = "version"]
  /\ UNCHANGED <<graphVars, due, overlapped, request>>

\* _next_version
NextVersion(p) == p.version + 1

ReadVersion(r) ==
  /\ run[r].stage = "version"
  /\ \E p \in Stored(UserOf(r)) :
       run' = [run EXCEPT ![r].stage = "write", ![r].version = NextVersion(p)]
  /\ UNCHANGED <<graphVars, due, overlapped, request>>

\* update_user_profile, and on to the next user.
Write(r) ==
  /\ run[r].stage = "write"
  /\ profile' = Updated(UserOf(r), [version |-> run[r].version, text |-> run[r].seen])
  /\ run' = [run EXCEPT ![r] = At("history", Left(r))]
  /\ UNCHANGED <<performed, active, due, overlapped, request>>

Finish(r) ==
  /\ run[r].stage = "history"
  /\ run[r].todo = {}
  /\ run' = [run EXCEPT ![r] = At("done", {})]
  /\ UNCHANGED <<graphVars, due, overlapped, request>>

\* Neo4j or the text generator fails, or the process dies: the run ends, and
\* the users that were left get no profile from it.
Fail(r) ==
  /\ UnderWay(r)
  /\ run' = [run EXCEPT ![r] = At("failed", {})]
  /\ due' = [due EXCEPT ![r] = [id \in UserIds |-> {}]]
  /\ UNCHANGED <<graphVars, overlapped, request>>

-----------------------------------------------------------------------------
(***************************************************************************)
(* The route: get_user_profile.                                            *)
(***************************************************************************)

Ask(id) ==
  /\ request.stage = "none"
  /\ request' = [request EXCEPT !.stage = "history", !.user = id]
  /\ UNCHANGED <<graphVars, run, due, overlapped>>

\* detect: the history, and then the count.
AskHistory ==
  /\ request.stage = "history"
  /\ request' = [request EXCEPT !.stage = "count"]
  /\ UNCHANGED <<graphVars, run, due, overlapped>>

NotAsking == [request EXCEPT !.stage = "none", !.user = NoUser]

\* 404 insufficient_data, or on.
AskCount ==
  /\ request.stage = "count"
  /\ request' = IF TooFew(request.user) THEN NotAsking ELSE [request EXCEPT !.stage = "stored"]
  /\ UNCHANGED <<graphVars, run, due, overlapped>>

\* 200 with the stored text and version, or with a text made now and no version.
AskStored ==
  /\ request.stage = "stored"
  /\ \E p \in Stored(request.user) :
       request' = [NotAsking EXCEPT !.answered[request.user] = p.version]
  /\ UNCHANGED <<graphVars, run, due, overlapped>>

-----------------------------------------------------------------------------

Next ==
  \/ \E e \in Events : WriteEvent(e)
  \/ \E n \in Nodes : GoQuiet(n)
  \/ \E r \in Runs : \/ Begin(r) \/ ReadHistory(r) \/ ReadCount(r) \/ ReadVersion(r)
                     \/ Write(r) \/ Finish(r) \/ Fail(r)
  \/ \E id \in UserIds : Ask(id)
  \/ AskHistory
  \/ AskCount
  \/ AskStored

Spec == Init /\ [][Next]_vars

-----------------------------------------------------------------------------
(***************************************************************************)
(* Properties.                                                             *)
(***************************************************************************)

HasProfile(n) == profile[n].version > 0

\* All nodes of a nativeUserId that have a profile have the same one, though
\* nodes appear between updates and runs overlap: so it does not matter which
\* node GET_USER_PROFILE takes (UPDATE_USER_PROFILE sets them all).
NodesAgree ==
  \A m, n \in Nodes :
    IdOf[m] = IdOf[n] /\ HasProfile(m) /\ HasProfile(n) => profile[m] = profile[n]

\* A version is followed by the next one, whose text was made from no less
\* history, also after failed runs and for nodes that are new; unless two runs
\* overlapped (_next_version, read and written in two transactions).
VersionsGoUpByOne ==
  [][\A n \in Nodes : profile'[n] # profile[n] /\ ~overlapped' =>
       \A p \in Stored(IdOf[n]) :
         profile'[n].version = p.version + 1 /\ p.text \subseteq profile'[n].text]_vars

\* A run that ended normally left every user that was active when it began,
\* and had enough events, with a profile, and with one made from all of these
\* events unless runs overlapped (run_once).
DoneRunsCover ==
  \A r \in Runs : \A id \in UserIds :
    run[r].stage = "done" /\ due[r][id] # {} =>
      \A p \in Stored(id) : p.version > 0 /\ (overlapped \/ due[r][id] \subseteq p.text)

\* A client that asks again is never answered an older version, or none after
\* it had one, unless runs overlapped (get_user_profile).
AnswersNeverGoBack ==
  [][overlapped \/ \A id \in UserIds : request'.answered[id] >= request.answered[id]]_vars

=============================================================================
