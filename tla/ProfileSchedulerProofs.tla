----------------------- MODULE ProfileSchedulerProofs -----------------------
(***************************************************************************)
(* Theorems about ProfileScheduler, for any users, nodes, events and runs. *)
(***************************************************************************)
EXTENDS ProfileScheduler, FiniteSetTheorems, TLAPS

-----------------------------------------------------------------------------
(***************************************************************************)
(* The inductive invariant.                                                *)
(***************************************************************************)

\* Only nodes that exist have a profile, and its text was made from events of
\* their user.
ProfilesFromEvents ==
  \A n \in Nodes : HasProfile(n) => Exists(n) /\ profile[n].text \subseteq EventsOf(IdOf[n])

\* Two runs are never under way at one time, unless it is remembered.
OneAtATime ==
  ~overlapped => \A r, s \in Runs : UnderWay(r) /\ UnderWay(s) => r = s

\* What run r has read of its user's history: no less than the user had when the
\* run began, and no less than the present profile was made from.
SeenIsRecent(r) ==
  run[r].stage \in {"count", "version", "write"} =>
    /\ run[r].seen \subseteq EventsOf(UserOf(r))
    /\ UserOf(r) \in UserIds => due[r][UserOf(r)] \subseteq run[r].seen
    /\ ~overlapped => \A p \in Stored(UserOf(r)) : p.text \subseteq run[r].seen

\* The version that is going to be written is still the next one.
VersionIsNext(r) ==
  run[r].stage = "write" /\ ~overlapped =>
    \A p \in Stored(UserOf(r)) : run[r].version = p.version + 1

\* What is due is in the graph, and enough for a profile.
DueIsEnough(r) ==
  \A id \in UserIds : due[r][id] # {} => due[r][id] \subseteq EventsOf(id) /\ ~TooFew(id)

\* A run still has to turn to a user, or owes it nothing.
Served(r, id) ==
  \A p \in Stored(id) : p.version > 0 /\ (overlapped \/ due[r][id] \subseteq p.text)

Covered(r) ==
  /\ run[r].stage \in {"idle", "done"} => run[r].todo = {}
  /\ \A id \in UserIds : due[r][id] # {} => id \in run[r].todo \/ Served(r, id)

RunInv(r) == SeenIsRecent(r) /\ VersionIsNext(r) /\ DueIsEnough(r) /\ Covered(r)

\* What was answered is no newer than what is stored.
AnswersAreOld ==
  ~overlapped => \A id \in UserIds : \A p \in Stored(id) : request.answered[id] <= p.version

Inv ==
  /\ TypeOK
  /\ ProfilesFromEvents
  /\ NodesAgree
  /\ OneAtATime
  /\ \A r \in Runs : RunInv(r)
  /\ AnswersAreOld

-----------------------------------------------------------------------------
(***************************************************************************)
(* Facts about events and stored profiles.                                 *)
(***************************************************************************)

LEMMA NoProfileType == NoProfile \in [version : Nat, text : SUBSET Events] /\ NoProfile.version = 0
                         /\ NoProfile.text = {}
BY DEF NoProfile

\* What GET_USER_PROFILE may take.
LEMMA StoredIs ==
  ASSUME NEW id, NEW p \in Stored(id)
  PROVE  \/ p = NoProfile /\ \A n \in Nodes : IdOf[n] = id => ~(profile[n].version > 0)
         \/ \E n \in Nodes : IdOf[n] = id /\ profile[n].version > 0 /\ p = profile[n]
BY DEF Stored

LEMMA StoredType ==
  ASSUME TypeOK, NEW id, NEW p \in Stored(id)
  PROVE  p \in [version : Nat, text : SUBSET Events]
BY StoredIs, NoProfileType DEF TypeOK

LEMMA NodeIsStored ==
  ASSUME NEW n \in Nodes, HasProfile(n)
  PROVE  profile[n] \in Stored(IdOf[n])
BY DEF Stored, HasProfile

\* It does not matter which node it takes.
LEMMA StoredIsOne ==
  ASSUME NodesAgree, NEW id, NEW p \in Stored(id), NEW q \in Stored(id)
  PROVE  p = q
BY StoredIs DEF NodesAgree, HasProfile

\* Events are never lost: histories grow, and who has enough keeps enough.
LEMMA EventsGrow ==
  ASSUME TypeOK, performed \subseteq performed', performed' \subseteq Events, NEW id
  PROVE  /\ EventsOf(id) \subseteq EventsOf(id)'
         /\ ~TooFew(id) => ~TooFew(id)'
<1>1. EventsOf(id) \subseteq EventsOf(id)' /\ EventsOf(id)' \subseteq Events
  BY DEF EventsOf
<1>2. IsFiniteSet(EventsOf(id)')
  BY <1>1, FS_Subset, ProfileAssumption
<1>3. IsFiniteSet(EventsOf(id)) /\ Cardinality(EventsOf(id)) <= Cardinality(EventsOf(id)')
  BY <1>1, <1>2, FS_Subset
<1>4. Cardinality(EventsOf(id)) \in Nat /\ Cardinality(EventsOf(id)') \in Nat
  BY <1>2, <1>3, FS_CardinalityType
<1>5. ~TooFew(id) => ~TooFew(id)'
  <2>1. MinEvents \in Nat
    BY ProfileAssumption
  <2> QED BY <1>3, <1>4, <2>1 DEF TooFew
<1> QED BY <1>1, <1>5

-----------------------------------------------------------------------------
(***************************************************************************)
(* Types.                                                                  *)
(***************************************************************************)

LEMMA UserIdsType == UserIds \subseteq Nat /\ NoUser \notin UserIds
BY ProfileAssumption DEF UserIds, NoUser

LEMMA ActiveUsersType == TypeOK => ActiveUsers \subseteq UserIds
BY DEF TypeOK, ActiveUsers, UserIds

LEMMA EventsOfType == TypeOK => \A id : EventsOf(id) \subseteq Events
BY DEF TypeOK, EventsOf

LEMMA AtType ==
  ASSUME NEW stage \in RunStages \ {"write"}, NEW todo \in SUBSET UserIds
  PROVE  /\ At(stage, todo) \in [stage : RunStages, todo : SUBSET UserIds,
                                 seen : SUBSET Events, version : Nat]
         /\ At(stage, todo).stage = stage /\ At(stage, todo).todo = todo
         /\ At(stage, todo).version = 0
         /\ At(stage, todo).stage = "write" <=> At(stage, todo).version > 0
<1>1. At(stage, todo) = [stage |-> stage, todo |-> todo, seen |-> {}, version |-> 0]
  BY DEF At
<1>2. stage # "write"
  OBVIOUS
<1> QED BY <1>1, <1>2

LEMMA TypeInit == Init => TypeOK
<1> SUFFICES ASSUME Init  PROVE TypeOK
  OBVIOUS
<1>1. At("idle", {}) \in [stage : RunStages, todo : SUBSET UserIds, seen : SUBSET Events, version : Nat]
        /\ (At("idle", {}).stage = "write" <=> At("idle", {}).version > 0)
  BY AtType DEF RunStages
<1>2. run = [r \in Runs |-> At("idle", {})]
  BY DEF Init
<1>3. /\ run \in [Runs -> [stage : RunStages, todo : SUBSET UserIds, seen : SUBSET Events, version : Nat]]
      /\ \A r \in Runs : run[r].stage = "write" <=> run[r].version > 0
  BY <1>1, <1>2
<1>4. request \in [stage : {"none", "history", "count", "stored"},
                   user : UserIds \union {NoUser}, answered : [UserIds -> Nat]]
  BY DEF Init
<1> QED BY <1>3, <1>4, NoProfileType DEF Init, TypeOK

\* A step of one run keeps the types of all.
LEMMA RunType ==
  ASSUME TypeOK, NEW r \in Runs,
         NEW new \in [stage : RunStages, todo : SUBSET UserIds, seen : SUBSET Events, version : Nat],
         new.stage = "write" <=> new.version > 0,
         run' = [run EXCEPT ![r] = new]
  PROVE  /\ run' \in [Runs -> [stage : RunStages, todo : SUBSET UserIds,
                               seen : SUBSET Events, version : Nat]]
         /\ \A s \in Runs : run'[s].stage = "write" <=> run'[s].version > 0
BY DEF TypeOK

LEMMA TypeStep == TypeOK /\ [Next]_vars => TypeOK'
<1> SUFFICES ASSUME TypeOK, [Next]_vars  PROVE TypeOK'
  OBVIOUS
<1> DEFINE Run == [stage : RunStages, todo : SUBSET UserIds, seen : SUBSET Events, version : Nat]
<1>1. ASSUME NEW e \in Events, WriteEvent(e)  PROVE TypeOK'
  <2>1. ActorOf[e] \in Nodes
    BY ProfileAssumption
  <2> QED BY <1>1, <2>1 DEF WriteEvent, TypeOK
<1>2. ASSUME NEW n \in Nodes, GoQuiet(n)  PROVE TypeOK'
  BY <1>2 DEF GoQuiet, TypeOK
<1>3. ASSUME NEW r \in Runs, Begin(r)  PROVE TypeOK'
  <2>1. run' = [run EXCEPT ![r] = At("history", ActiveUsers)]
    BY <1>3 DEF Begin
  <2>2. At("history", ActiveUsers) \in Run /\ At("history", ActiveUsers).stage = "history"
          /\ (At("history", ActiveUsers).stage = "write" <=> At("history", ActiveUsers).version > 0)
    BY AtType, ActiveUsersType DEF RunStages
  <2>3. /\ run' \in [Runs -> Run]
        /\ \A s \in Runs : run'[s].stage = "write" <=> run'[s].version > 0
    BY <2>1, <2>2, RunType
  <2>4. due' \in [Runs -> [UserIds -> SUBSET Events]]
    BY <1>3, EventsOfType DEF Begin, TypeOK
  <2>5. overlapped' \in BOOLEAN
    BY <1>3 DEF Begin, TypeOK
  <2> QED BY <1>3, <2>3, <2>4, <2>5 DEF Begin, graphVars, TypeOK
<1>4. ASSUME NEW r \in Runs, ReadHistory(r)  PROVE TypeOK'
  <2> DEFINE new == [run[r] EXCEPT !.stage = "count", !.seen = EventsOf(UserOf(r))]
  <2>1. run' = [run EXCEPT ![r] = new]
    BY <1>4 DEF ReadHistory, TypeOK
  <2>2. new \in Run /\ (new.stage = "write" <=> new.version > 0)
    BY <1>4, EventsOfType DEF ReadHistory, TypeOK, RunStages
  <2>3. /\ run' \in [Runs -> Run]
        /\ \A s \in Runs : run'[s].stage = "write" <=> run'[s].version > 0
    BY <2>1, <2>2, RunType
  <2> QED BY <1>4, <2>3 DEF ReadHistory, graphVars, TypeOK
<1>5. ASSUME NEW r \in Runs, ReadCount(r)  PROVE TypeOK'
  <2>1. CASE TooFew(UserOf(r))
    <3>1. run' = [run EXCEPT ![r] = At("history", Left(r))]
      BY <1>5, <2>1 DEF ReadCount, AfterSkip
    <3>2. Left(r) \in SUBSET UserIds
      BY DEF Left, TypeOK
    <3>3. At("history", Left(r)) \in Run /\ At("history", Left(r)).stage = "history"
            /\ (At("history", Left(r)).stage = "write" <=> At("history", Left(r)).version > 0)
      BY <3>2, AtType DEF RunStages
    <3>4. /\ run' \in [Runs -> Run]
          /\ \A s \in Runs : run'[s].stage = "write" <=> run'[s].version > 0
      BY <3>1, <3>3, RunType
    <3> QED BY <1>5, <3>4 DEF ReadCount, graphVars, TypeOK
  <2>2. CASE ~TooFew(UserOf(r))
    <3> DEFINE new == [run[r] EXCEPT !.stage = "version"]
    <3>1. run' = [run EXCEPT ![r] = new]
      BY <1>5, <2>2 DEF ReadCount, TypeOK
    <3>2. new \in Run /\ (new.stage = "write" <=> new.version > 0)
      BY <1>5 DEF ReadCount, TypeOK, RunStages
    <3>3. /\ run' \in [Runs -> Run]
          /\ \A s \in Runs : run'[s].stage = "write" <=> run'[s].version > 0
      BY <3>1, <3>2, RunType
    <3> QED BY <1>5, <3>3 DEF ReadCount, graphVars, TypeOK
  <2> QED BY <2>1, <2>2
<1>6. ASSUME NEW r \in Runs, ReadVersion(r)  PROVE TypeOK'
  <2>1. PICK p \in Stored(UserOf(r)) :
           run' = [run EXCEPT ![r].stage = "write", ![r].version = NextVersion(p)]
    BY <1>6 DEF ReadVersion
  <2>2. NextVersion(p) \in Nat /\ NextVersion(p) > 0
    BY StoredType DEF NextVersion
  <2> DEFINE new == [run[r] EXCEPT !.stage = "write", !.version = NextVersion(p)]
  <2>3. run' = [run EXCEPT ![r] = new]
    BY <2>1 DEF TypeOK
  <2>4. new \in Run /\ (new.stage = "write" <=> new.version > 0)
    <3>1. run[r] \in Run /\ "write" \in RunStages
      BY DEF TypeOK, RunStages
    <3>2. new.stage = "write" /\ new.version = NextVersion(p)
      BY <3>1
    <3>3. new \in Run
      BY <2>2, <3>1
    <3> QED BY <2>2, <3>2, <3>3
  <2>5. /\ run' \in [Runs -> Run]
        /\ \A s \in Runs : run'[s].stage = "write" <=> run'[s].version > 0
    BY <2>3, <2>4, RunType
  <2> QED BY <1>6, <2>5 DEF ReadVersion, graphVars, TypeOK
<1>7. ASSUME NEW r \in Runs, Write(r)  PROVE TypeOK'
  <2>1. Left(r) \in SUBSET UserIds
    BY DEF Left, TypeOK
  <2>2. At("history", Left(r)) \in Run /\ At("history", Left(r)).stage = "history"
          /\ (At("history", Left(r)).stage = "write" <=> At("history", Left(r)).version > 0)
    BY <2>1, AtType DEF RunStages
  <2>3. /\ run' \in [Runs -> Run]
        /\ \A s \in Runs : run'[s].stage = "write" <=> run'[s].version > 0
    BY <1>7, <2>2, RunType DEF Write
  <2>4. profile' \in [Nodes -> [version : Nat, text : SUBSET Events]]
    BY <1>7 DEF Write, Updated, TypeOK
  <2> QED BY <1>7, <2>3, <2>4 DEF Write, TypeOK
<1>8. ASSUME NEW r \in Runs, Finish(r) \/ Fail(r)  PROVE TypeOK'
  <2>1. PICK stage \in {"done", "failed"} : run' = [run EXCEPT ![r] = At(stage, {})]
    BY <1>8 DEF Finish, Fail
  <2>2. At(stage, {}) \in Run
          /\ (At(stage, {}).stage = "write" <=> At(stage, {}).version > 0)
    BY AtType DEF RunStages
  <2>3. /\ run' \in [Runs -> Run]
        /\ \A s \in Runs : run'[s].stage = "write" <=> run'[s].version > 0
    BY <2>1, <2>2, RunType
  <2>4. due' \in [Runs -> [UserIds -> SUBSET Events]]
    BY <1>8 DEF Finish, Fail, TypeOK
  <2> QED BY <1>8, <2>3, <2>4 DEF Finish, Fail, graphVars, TypeOK
<1>9. ASSUME NEW id \in UserIds, Ask(id)  PROVE TypeOK'
  BY <1>9 DEF Ask, graphVars, TypeOK
<1>10. CASE AskHistory \/ AskCount
  BY <1>10 DEF AskHistory, AskCount, NotAsking, graphVars, TypeOK
<1>11. CASE AskStored
  <2>1. PICK p \in Stored(request.user) :
           request' = [NotAsking EXCEPT !.answered[request.user] = p.version]
    BY <1>11 DEF AskStored
  <2>2. p.version \in Nat
    BY StoredType
  <2>3. request' \in [stage : {"none", "history", "count", "stored"},
                      user : UserIds \union {NoUser}, answered : [UserIds -> Nat]]
    BY <2>1, <2>2 DEF NotAsking, TypeOK
  <2> QED BY <1>11, <2>3 DEF AskStored, graphVars, TypeOK
<1>12. CASE UNCHANGED vars
  BY <1>12 DEF vars, TypeOK
<1> QED BY <1>1, <1>2, <1>3, <1>4, <1>5, <1>6, <1>7, <1>8, <1>9, <1>10, <1>11, <1>12 DEF Next

\* The state of the profiles and of the runs has its types (run_once,
\* get_user_profile).
THEOREM ProfileTypeCorrect == Spec => []TypeOK
BY TypeInit, TypeStep, PTL DEF Spec

-----------------------------------------------------------------------------
(***************************************************************************)
(* Steps that leave the profiles alone.                                    *)
(***************************************************************************)

LEMMA InvInit == Init => Inv
<1> SUFFICES ASSUME Init  PROVE Inv
  OBVIOUS
<1>1. \A n \in Nodes : profile[n].version = 0
  BY NoProfileType DEF Init
<1>2. TypeOK
  BY TypeInit
<1>3. ProfilesFromEvents /\ NodesAgree
  BY <1>1 DEF ProfilesFromEvents, NodesAgree, HasProfile
<1>4. \A r \in Runs : run[r].stage = "idle" /\ run[r].todo = {} /\ \A id \in UserIds : due[r][id] = {}
  BY DEF Init, At
<1>5. OneAtATime
  BY <1>4 DEF OneAtATime, UnderWay
<1>6. \A r \in Runs : RunInv(r)
  BY <1>4 DEF RunInv, SeenIsRecent, VersionIsNext, DueIsEnough, Covered
<1>7. AnswersAreOld
  <2> SUFFICES ASSUME NEW id \in UserIds, NEW p \in Stored(id)
               PROVE  request.answered[id] <= p.version
    BY DEF AnswersAreOld
  <2>1. p.version \in Nat
    BY <1>2, StoredType
  <2>2. request.answered[id] = 0
    BY DEF Init
  <2> QED BY <2>1, <2>2
<1> QED BY <1>2, <1>3, <1>5, <1>6, <1>7 DEF Inv

\* What holds of the graph keeps holding while events arrive.
LEMMA GraphKeeps ==
  ASSUME Inv, UNCHANGED profile, performed \subseteq performed'
  PROVE  ProfilesFromEvents' /\ NodesAgree' /\ (\A id : Stored(id)' = Stored(id))
<1>1. \A n \in Nodes : Exists(n) => Exists(n)'
  BY DEF Exists
<1>2. \A id : EventsOf(id) \subseteq EventsOf(id)'
  BY DEF EventsOf
<1>3. ProfilesFromEvents'
  BY <1>1, <1>2 DEF Inv, ProfilesFromEvents, HasProfile
<1>4. NodesAgree'
  BY DEF Inv, NodesAgree, HasProfile
<1>5. \A id : Stored(id)' = Stored(id)
  BY DEF Stored
<1> QED BY <1>3, <1>4, <1>5

\* A run that does nothing keeps what holds of it.
LEMMA RunKeeps ==
  ASSUME Inv, UNCHANGED profile, performed \subseteq performed', performed' \subseteq Events,
         overlapped => overlapped', NEW r \in Runs, run'[r] = run[r], due'[r] = due[r]
  PROVE  RunInv(r)'
<1>1. \A id : EventsOf(id) \subseteq EventsOf(id)' /\ (~TooFew(id) => ~TooFew(id)')
  BY EventsGrow DEF Inv
<1>2. \A id : Stored(id)' = Stored(id)
  BY GraphKeeps
<1>3. PICK u : u = UserOf(r)
  OBVIOUS
<1>4. UserOf(r)' = u
  BY <1>3 DEF UserOf
<1>5. RunInv(r)
  BY DEF Inv
<1>6. SeenIsRecent(r)'
  <2> SUFFICES ASSUME run[r].stage \in {"count", "version", "write"}
               PROVE  /\ run[r].seen \subseteq EventsOf(u)'
                      /\ u \in UserIds => due[r][u] \subseteq run[r].seen
                      /\ ~overlapped' => \A p \in Stored(u)' : p.text \subseteq run[r].seen
    BY <1>4 DEF SeenIsRecent
  <2>1. /\ run[r].seen \subseteq EventsOf(u)
        /\ u \in UserIds => due[r][u] \subseteq run[r].seen
        /\ ~overlapped => \A p \in Stored(u) : p.text \subseteq run[r].seen
    BY <1>3, <1>5 DEF RunInv, SeenIsRecent
  <2> QED BY <1>1, <1>2, <2>1
<1>7. VersionIsNext(r)'
  <2> SUFFICES ASSUME run[r].stage = "write", ~overlapped', NEW p \in Stored(u)'
               PROVE  run[r].version = p.version + 1
    BY <1>4 DEF VersionIsNext
  <2>1. p \in Stored(u)
    BY <1>2
  <2> QED BY <1>3, <1>5, <2>1 DEF RunInv, VersionIsNext
<1>8. DueIsEnough(r)'
  BY <1>1, <1>5 DEF RunInv, DueIsEnough, UserIds
<1>9. Covered(r)'
  BY <1>2, <1>5 DEF RunInv, Covered, Served, UserIds
<1> QED BY <1>6, <1>7, <1>8, <1>9 DEF RunInv

\* Events, and reads of the route.
LEMMA QuietStep ==
  ASSUME Inv, TypeOK', UNCHANGED <<profile, run, due, overlapped>>,
         performed \subseteq performed',
         \/ UNCHANGED request.answered
         \/ \E id \in UserIds : \E p \in Stored(id) :
              request'.answered = [request.answered EXCEPT ![id] = p.version]
  PROVE  Inv'
<1>1. performed' \subseteq Events
  BY DEF TypeOK
<1>2. ProfilesFromEvents' /\ NodesAgree' /\ (\A id : Stored(id)' = Stored(id))
  BY GraphKeeps
<1>3. \A r \in Runs : RunInv(r)'
  BY <1>1, RunKeeps
<1>4. OneAtATime'
  BY DEF Inv, OneAtATime, UnderWay
<1>5. AnswersAreOld'
  <2> SUFFICES ASSUME ~overlapped, NEW id \in UserIds, NEW q \in Stored(id)
               PROVE  request'.answered[id] <= q.version
    BY <1>2 DEF AnswersAreOld
  <2>1. request.answered[id] <= q.version
    BY DEF Inv, AnswersAreOld
  <2>2. CASE UNCHANGED request.answered
    BY <2>1, <2>2
  <2>3. ASSUME NEW other \in UserIds, NEW p \in Stored(other),
               request'.answered = [request.answered EXCEPT ![other] = p.version]
        PROVE  request'.answered[id] <= q.version
    <3>1. request.answered \in [UserIds -> Nat]
      BY DEF Inv, TypeOK
    <3>2. CASE id = other
      <4>1. p = q
        BY <3>2, StoredIsOne DEF Inv
      <4>2. q.version \in Nat
        BY StoredType DEF Inv
      <4> QED BY <2>3, <3>1, <3>2, <4>1, <4>2
    <3>3. CASE id # other
      BY <2>1, <2>3, <3>1, <3>3
    <3> QED BY <3>2, <3>3
  <2> QED BY <2>2, <2>3
<1> QED BY <1>2, <1>3, <1>4, <1>5 DEF Inv

\* A step of one run that writes nothing.
LEMMA ReadStep ==
  ASSUME Inv, TypeOK', UNCHANGED <<profile, performed, request>>, overlapped => overlapped',
         NEW r \in Runs,
         \A s \in Runs \ {r} : run'[s] = run[s] /\ due'[s] = due[s],
         ~overlapped' /\ UnderWay(r)' => \A s \in Runs \ {r} : ~UnderWay(s),
         RunInv(r)'
  PROVE  Inv'
<1>1. ProfilesFromEvents' /\ NodesAgree' /\ (\A id : Stored(id)' = Stored(id))
  BY GraphKeeps
<1>2. \A s \in Runs : RunInv(s)'
  <2>1. performed' \subseteq Events
    BY DEF TypeOK
  <2> QED BY <2>1, RunKeeps
<1>3. OneAtATime'
  BY DEF Inv, OneAtATime, UnderWay
<1>4. AnswersAreOld'
  BY <1>1 DEF Inv, AnswersAreOld, UserIds
<1> QED BY <1>1, <1>2, <1>3, <1>4 DEF Inv

LEMMA BeginStep ==
  ASSUME Inv, TypeOK', NEW r \in Runs, Begin(r)
  PROVE  Inv'
<1>1. /\ UNCHANGED <<profile, performed, request>>
      /\ overlapped' = (overlapped \/ \E s \in Runs : UnderWay(s))
  BY DEF Begin, graphVars
<1>2. \A s \in Runs \ {r} : run'[s] = run[s] /\ due'[s] = due[s]
  BY DEF Begin, Inv, TypeOK
<1>3. run'[r].stage = "history" /\ run'[r].todo = ActiveUsers
  BY DEF Begin, At, Inv, TypeOK
<1>4. \A id \in UserIds :
        due'[r][id] = IF id \in ActiveUsers /\ ~TooFew(id) THEN EventsOf(id) ELSE {}
  BY DEF Begin, Inv, TypeOK
<1>5. \A id : EventsOf(id)' = EventsOf(id) /\ TooFew(id)' = TooFew(id)
  BY <1>1 DEF EventsOf, TooFew
<1>6. SeenIsRecent(r)' /\ VersionIsNext(r)'
  BY <1>3 DEF SeenIsRecent, VersionIsNext
<1>7. DueIsEnough(r)'
  BY <1>4, <1>5 DEF DueIsEnough, UserIds
<1>8. Covered(r)'
  BY <1>3, <1>4 DEF Covered, UserIds
<1>9. RunInv(r)'
  BY <1>6, <1>7, <1>8 DEF RunInv
<1>10. ~overlapped' /\ UnderWay(r)' => \A s \in Runs \ {r} : ~UnderWay(s)
  BY <1>1
<1> QED BY <1>1, <1>2, <1>9, <1>10, ReadStep

\* The rest of the steps of a run that is under way.
LEMMA RunStep ==
  ASSUME Inv, TypeOK', NEW r \in Runs, UnderWay(r),
         UNCHANGED <<profile, performed, request, overlapped>>,
         \A s \in Runs \ {r} : run'[s] = run[s] /\ due'[s] = due[s],
         SeenIsRecent(r)', VersionIsNext(r)', DueIsEnough(r)', Covered(r)'
  PROVE  Inv'
<1>1. RunInv(r)'
  BY DEF RunInv
<1>2. ~overlapped' /\ UnderWay(r)' => \A s \in Runs \ {r} : ~UnderWay(s)
  BY DEF Inv, OneAtATime
<1> QED BY <1>1, <1>2, ReadStep

\* Who was served stays served.
LEMMA ServedKeeps ==
  ASSUME NEW r \in Runs, NEW id \in UserIds, Served(r, id),
         UNCHANGED <<profile, overlapped>>, due'[r] = due[r]
  PROVE  Served(r, id)'
<1>1. Stored(id)' = Stored(id)
  BY DEF Stored
<1> QED BY <1>1 DEF Served

LEMMA ReadHistoryStep ==
  ASSUME Inv, TypeOK', NEW r \in Runs, ReadHistory(r)
  PROVE  Inv'
<1>1. UNCHANGED <<profile, performed, request, overlapped, due>> /\ UnderWay(r)
  BY DEF ReadHistory, graphVars, UnderWay
<1>2. \A s \in Runs \ {r} : run'[s] = run[s]
  BY DEF ReadHistory, Inv, TypeOK
<1>3. PICK u : u = UserOf(r)
  OBVIOUS
<1>4. run'[r].stage = "count" /\ run'[r].todo = run[r].todo /\ run'[r].seen = EventsOf(u)
  BY <1>3 DEF ReadHistory, Inv, TypeOK
<1>5. UserOf(r)' = u
  BY <1>3, <1>4 DEF UserOf
<1>6. EventsOf(u)' = EventsOf(u) /\ Stored(u)' = Stored(u)
  BY <1>1 DEF EventsOf, Stored
<1>7. u \in UserIds => due[r][u] \subseteq EventsOf(u)
  BY DEF Inv, RunInv, DueIsEnough
<1>8. \A p \in Stored(u) : p.text \subseteq EventsOf(u)
  <2> SUFFICES ASSUME NEW p \in Stored(u)  PROVE p.text \subseteq EventsOf(u)
    OBVIOUS
  <2>1. CASE p = NoProfile
    BY <2>1, NoProfileType
  <2>2. ASSUME NEW n \in Nodes, IdOf[n] = u, profile[n].version > 0, p = profile[n]
        PROVE  p.text \subseteq EventsOf(u)
    BY <2>2 DEF Inv, ProfilesFromEvents, HasProfile
  <2> QED BY <2>1, <2>2, StoredIs
<1>9. SeenIsRecent(r)'
  BY <1>1, <1>4, <1>5, <1>6, <1>7, <1>8 DEF SeenIsRecent, UserIds
<1>10. VersionIsNext(r)'
  BY <1>4 DEF VersionIsNext
<1>11. DueIsEnough(r)'
  BY <1>1 DEF Inv, RunInv, DueIsEnough, EventsOf, TooFew, UserIds
<1>12. Covered(r)'
  BY <1>1, <1>4, ServedKeeps DEF Inv, RunInv, Covered, UserIds
<1> QED BY <1>1, <1>2, <1>9, <1>10, <1>11, <1>12, RunStep

\* On to the next user: the run owes this one nothing.
LEMMA SkipStep ==
  ASSUME Inv, TypeOK', NEW r \in Runs, UnderWay(r),
         UNCHANGED <<profile, performed, request, overlapped, due>>,
         run' = [run EXCEPT ![r] = At("history", Left(r))],
         NEW u, u = UserOf(r),
         u \in UserIds => due[r][u] = {}
  PROVE  Inv'
<1>1. \A s \in Runs \ {r} : run'[s] = run[s]
  BY DEF Inv, TypeOK
<1>2. run'[r].stage = "history" /\ run'[r].todo = run[r].todo \ {u}
  BY DEF At, Left, Inv, TypeOK
<1>3. SeenIsRecent(r)' /\ VersionIsNext(r)'
  BY <1>2 DEF SeenIsRecent, VersionIsNext
<1>4. DueIsEnough(r)'
  BY DEF Inv, RunInv, DueIsEnough, EventsOf, TooFew, UserIds
<1>5. Covered(r)'
  BY <1>2, ServedKeeps DEF Inv, RunInv, Covered, UserIds
<1> QED BY <1>1, <1>3, <1>4, <1>5, RunStep

\* On to a step in which something is read, or a version was.
LEMMA OnStep ==
  ASSUME Inv, TypeOK', NEW r \in Runs, run[r].stage \in {"count", "version"},
         UNCHANGED <<profile, performed, request, overlapped, due>>,
         \A s \in Runs \ {r} : run'[s] = run[s],
         run'[r].stage \in {"version", "write"},
         run'[r].todo = run[r].todo, run'[r].seen = run[r].seen,
         VersionIsNext(r)'
  PROVE  Inv'
<1>1. PICK u : u = UserOf(r)
  OBVIOUS
<1>2. UserOf(r)' = u
  BY <1>1 DEF UserOf
<1>3. EventsOf(u)' = EventsOf(u) /\ Stored(u)' = Stored(u)
  BY DEF EventsOf, Stored
<1>4. SeenIsRecent(r)
  BY DEF Inv, RunInv
<1>5. SeenIsRecent(r)'
  BY <1>1, <1>2, <1>3, <1>4 DEF SeenIsRecent, UserIds
<1>6. DueIsEnough(r)'
  BY DEF Inv, RunInv, DueIsEnough, EventsOf, TooFew, UserIds
<1>7. Covered(r)'
  BY ServedKeeps DEF Inv, RunInv, Covered, UserIds
<1>8. UnderWay(r)
  BY DEF UnderWay
<1> QED BY <1>5, <1>6, <1>7, <1>8, RunStep

LEMMA ReadCountStep ==
  ASSUME Inv, TypeOK', NEW r \in Runs, ReadCount(r)
  PROVE  Inv'
<1>1. UNCHANGED <<profile, performed, request, overlapped, due>> /\ run[r].stage = "count"
  BY DEF ReadCount, graphVars
<1>2. CASE TooFew(UserOf(r))
  <2>1. UserOf(r) \in UserIds => due[r][UserOf(r)] = {}
    BY <1>2 DEF Inv, RunInv, DueIsEnough
  <2>2. run' = [run EXCEPT ![r] = At("history", Left(r))]
    BY <1>2 DEF ReadCount, AfterSkip
  <2>3. UnderWay(r)
    BY <1>1 DEF UnderWay
  <2> QED BY <1>1, <2>1, <2>2, <2>3, SkipStep
<1>3. CASE ~TooFew(UserOf(r))
  <2>1. run' = [run EXCEPT ![r].stage = "version"]
    BY <1>3 DEF ReadCount
  <2>2. /\ \A s \in Runs \ {r} : run'[s] = run[s]
        /\ run'[r].stage = "version" /\ run'[r].todo = run[r].todo /\ run'[r].seen = run[r].seen
    BY <2>1 DEF Inv, TypeOK
  <2>3. VersionIsNext(r)'
    BY <2>2 DEF VersionIsNext
  <2> QED BY <1>1, <2>2, <2>3, OnStep
<1> QED BY <1>2, <1>3

LEMMA ReadVersionStep ==
  ASSUME Inv, TypeOK', NEW r \in Runs, ReadVersion(r)
  PROVE  Inv'
<1>1. UNCHANGED <<profile, performed, request, overlapped, due>> /\ run[r].stage = "version"
  BY DEF ReadVersion, graphVars
<1>2. PICK u : u = UserOf(r)
  OBVIOUS
<1>3. PICK p \in Stored(u) :
         run' = [run EXCEPT ![r].stage = "write", ![r].version = NextVersion(p)]
  BY <1>2 DEF ReadVersion
<1>4. /\ \A s \in Runs \ {r} : run'[s] = run[s]
      /\ run'[r].stage = "write" /\ run'[r].todo = run[r].todo /\ run'[r].seen = run[r].seen
      /\ run'[r].version = p.version + 1
  BY <1>3 DEF Inv, TypeOK, NextVersion
<1>5. UserOf(r)' = u
  BY <1>2, <1>4 DEF UserOf
<1>6. Stored(u)' = Stored(u)
  BY <1>1 DEF Stored
<1>7. VersionIsNext(r)'
  BY <1>3, <1>4, <1>5, <1>6, StoredIsOne DEF VersionIsNext, Inv
<1> QED BY <1>1, <1>4, <1>7, OnStep

LEMMA EndStep ==
  ASSUME Inv, TypeOK', NEW r \in Runs, Finish(r) \/ Fail(r)
  PROVE  Inv'
<1>1. /\ UNCHANGED <<profile, performed, request, overlapped>> /\ UnderWay(r)
      /\ \A s \in Runs \ {r} : run'[s] = run[s] /\ due'[s] = due[s]
  BY DEF Finish, Fail, graphVars, UnderWay, Inv, TypeOK
<1>2. run'[r].stage \in {"done", "failed"} /\ run'[r].todo = {}
  BY DEF Finish, Fail, At, Inv, TypeOK
<1>3. \A id \in UserIds : due'[r][id] = {} \/ (due'[r][id] = due[r][id] /\ run[r].todo = {})
  BY DEF Finish, Fail, Inv, TypeOK
<1>4. SeenIsRecent(r)' /\ VersionIsNext(r)'
  BY <1>2 DEF SeenIsRecent, VersionIsNext
<1>5. DueIsEnough(r)'
  BY <1>1, <1>3 DEF Inv, RunInv, DueIsEnough, EventsOf, TooFew, UserIds
<1>6. Covered(r)'
  <2> SUFFICES ASSUME NEW id \in UserIds, due'[r][id] # {}
               PROVE  Served(r, id)'
    BY <1>2 DEF Covered, UserIds
  <2>1. due'[r][id] = due[r][id] /\ run[r].todo = {}
    BY <1>3
  <2>2. Served(r, id)
    BY <2>1 DEF Inv, RunInv, Covered
  <2>3. Stored(id)' = Stored(id)
    BY <1>1 DEF Stored
  <2> QED BY <1>1, <2>1, <2>2, <2>3 DEF Served
<1> QED BY <1>1, <1>4, <1>5, <1>6, RunStep

-----------------------------------------------------------------------------
(***************************************************************************)
(* The write of a profile.                                                 *)
(***************************************************************************)

\* What GET_USER_PROFILE may take after the write.
LEMMA StoredAfterWrite ==
  ASSUME Inv, NEW r \in Runs, Write(r), NEW u, u = UserOf(r),
         NEW new, new = [version |-> run[r].version, text |-> run[r].seen]
  PROVE  /\ new.version > 0 /\ new \in [version : Nat, text : SUBSET Events]
         /\ \A n \in Nodes : profile'[n] = IF IdOf[n] = u /\ Exists(n) THEN new ELSE profile[n]
         /\ \A id : id # u => Stored(id)' = Stored(id)
         /\ (\E n \in Nodes : IdOf[n] = u /\ Exists(n)) => \A p \in Stored(u)' : p = new
         /\ ~(\E n \in Nodes : IdOf[n] = u /\ Exists(n)) => Stored(u)' = Stored(u)
<1>1. profile' = Updated(u, new)
  BY DEF Write
<1>2. \A n \in Nodes : profile'[n] = IF IdOf[n] = u /\ Exists(n) THEN new ELSE profile[n]
  BY <1>1 DEF Updated
<1>3. new \in [version : Nat, text : SUBSET Events] /\ new.version > 0
  <2>1. run[r].version > 0 /\ run[r].version \in Nat /\ run[r].seen \in SUBSET Events
    BY DEF Write, Inv, TypeOK
  <2> QED BY <2>1
<1>4. ASSUME NEW id, id # u  PROVE Stored(id)' = Stored(id)
  <2>1. \A n \in Nodes : IdOf[n] = id => profile'[n] = profile[n]
    BY <1>2, <1>4
  <2> QED BY <2>1 DEF Stored
<1>5. ASSUME NEW m \in Nodes, IdOf[m] = u, Exists(m), NEW p \in Stored(u)'
      PROVE  p = new
  <2>1. profile'[m] = new
    BY <1>2, <1>5
  <2>2. PICK n \in Nodes : IdOf[n] = u /\ profile'[n].version > 0 /\ p = profile'[n]
    BY <1>3, <1>5, <2>1 DEF Stored
  <2>3. Exists(n)
    BY <1>2, <2>2 DEF Inv, ProfilesFromEvents, HasProfile
  <2> QED BY <1>2, <2>2, <2>3
<1>6. ASSUME ~(\E n \in Nodes : IdOf[n] = u /\ Exists(n))
      PROVE  Stored(u)' = Stored(u)
  <2>1. \A n \in Nodes : IdOf[n] = u => profile'[n] = profile[n]
    BY <1>2, <1>6
  <2> QED BY <2>1 DEF Stored
<1> QED BY <1>2, <1>3, <1>4, <1>5, <1>6

LEMMA WriteStep ==
  ASSUME Inv, TypeOK', NEW r \in Runs, Write(r)
  PROVE  Inv'
<1>1. PICK u : u = UserOf(r)
  OBVIOUS
<1>2. PICK new : new = [version |-> run[r].version, text |-> run[r].seen]
  OBVIOUS
<1>3. /\ UNCHANGED <<performed, due, overlapped, request>> /\ run[r].stage = "write"
      /\ \A s \in Runs \ {r} : run'[s] = run[s]
      /\ run'[r].stage = "history" /\ run'[r].todo = run[r].todo \ {u}
  BY <1>1 DEF Write, Left, At, Inv, TypeOK
<1>4. /\ new.version > 0 /\ new.version = run[r].version /\ new.text = run[r].seen
      /\ \A n \in Nodes : profile'[n] = IF IdOf[n] = u /\ Exists(n) THEN new ELSE profile[n]
      /\ \A id : id # u => Stored(id)' = Stored(id)
      /\ (\E n \in Nodes : IdOf[n] = u /\ Exists(n)) => \A p \in Stored(u)' : p = new
      /\ ~(\E n \in Nodes : IdOf[n] = u /\ Exists(n)) => Stored(u)' = Stored(u)
  BY <1>1, <1>2, StoredAfterWrite
<1>5. /\ new.text \subseteq EventsOf(u)
      /\ u \in UserIds => due[r][u] \subseteq new.text
      /\ ~overlapped => \A p \in Stored(u) : p.text \subseteq new.text
      /\ ~overlapped => \A p \in Stored(u) : new.version = p.version + 1
  <2>1. SeenIsRecent(r) /\ VersionIsNext(r)
    BY DEF Inv, RunInv
  <2> QED BY <1>1, <1>3, <1>4, <2>1 DEF SeenIsRecent, VersionIsNext
<1>6. \A id : EventsOf(id)' = EventsOf(id) /\ TooFew(id)' = TooFew(id)
  BY <1>3 DEF EventsOf, TooFew
<1>7. \A n \in Nodes : Exists(n)' = Exists(n)
  BY <1>3 DEF Exists
<1>8. ProfilesFromEvents'
  BY <1>4, <1>5, <1>6, <1>7 DEF Inv, ProfilesFromEvents, HasProfile
<1>9. NodesAgree'
  <2> SUFFICES ASSUME NEW m \in Nodes, NEW n \in Nodes, IdOf[m] = IdOf[n],
                      profile'[m].version > 0, profile'[n].version > 0
               PROVE  profile'[m] = profile'[n]
    BY DEF NodesAgree, HasProfile
  <2>1. CASE IdOf[m] = u
    <3>1. Exists(m) /\ Exists(n)
      BY <1>4, <2>1 DEF Inv, ProfilesFromEvents, HasProfile
    <3> QED BY <1>4, <2>1, <3>1
  <2>2. CASE IdOf[m] # u
    BY <1>4, <2>2 DEF Inv, NodesAgree, HasProfile
  <2> QED BY <2>1, <2>2
<1>10. OneAtATime'
  BY <1>3 DEF Inv, OneAtATime, UnderWay
<1>11. \A s \in Runs \ {r} : ~overlapped => ~UnderWay(s)
  BY <1>3 DEF Inv, OneAtATime, UnderWay
\* Who was served is served after the write, and so is its user.
<1>12. ASSUME NEW s \in Runs, NEW id \in UserIds, due[s][id] # {},
              Served(s, id) \/ (s = r /\ id = u)
       PROVE  Served(s, id)'
  <2>1. CASE id # u
    BY <1>3, <1>4, <1>12, <2>1 DEF Served
  <2>2. CASE id = u
    <3>1. due[s][u] \subseteq EventsOf(u)
      BY <1>12, <2>2 DEF Inv, RunInv, DueIsEnough
    <3>2. PICK e \in performed : IdOf[ActorOf[e]] = u
      BY <1>12, <2>2, <3>1 DEF EventsOf
    <3>3. ActorOf[e] \in Nodes /\ Exists(ActorOf[e])
      BY <3>2, ProfileAssumption DEF Exists, Inv, TypeOK
    <3>4. \A p \in Stored(u)' : p = new
      BY <1>4, <3>2, <3>3
    <3>5. overlapped \/ due[s][u] \subseteq new.text
      <4>1. CASE s = r
        BY <1>5, <1>12, <2>2, <4>1
      <4>2. CASE s # r
        <5>1. Served(s, u)
          BY <1>12, <2>2, <4>2
        <5>2. PICK p : p \in Stored(u)
          BY DEF Stored
        <5> QED BY <1>5, <5>1, <5>2 DEF Served
      <4> QED BY <4>1, <4>2
    <3> QED BY <1>3, <1>4, <2>2, <3>4, <3>5 DEF Served
  <2> QED BY <2>1, <2>2
<1>13. ASSUME NEW s \in Runs  PROVE RunInv(s)'
  <2>1. DueIsEnough(s)'
    BY <1>3, <1>6 DEF Inv, RunInv, DueIsEnough, UserIds
  <2>2. CASE s = r
    <3>1. SeenIsRecent(r)' /\ VersionIsNext(r)'
      BY <1>3 DEF SeenIsRecent, VersionIsNext
    <3>2. Covered(r)'
      <4> SUFFICES ASSUME NEW id \in UserIds, due[r][id] # {}, id \notin run'[r].todo
                   PROVE  Served(r, id)'
        BY <1>3 DEF Covered, UserIds
      <4>1. Served(r, id) \/ id = u
        BY <1>3 DEF Inv, RunInv, Covered
      <4> QED BY <1>12, <4>1
    <3> QED BY <2>1, <2>2, <3>1, <3>2 DEF RunInv
  <2>3. CASE s # r
    <3>1. PICK v : v = UserOf(s)
      OBVIOUS
    <3>2. run'[s] = run[s] /\ UserOf(s)' = v
      BY <1>3, <2>3, <3>1 DEF UserOf
    <3>3. overlapped \/ run[s].stage \notin {"count", "version", "write"}
      BY <1>11, <2>3 DEF UnderWay
    <3>4. SeenIsRecent(s) /\ Covered(s)
      BY DEF Inv, RunInv
    <3>5. SeenIsRecent(s)'
      <4> SUFFICES ASSUME run[s].stage \in {"count", "version", "write"}
                   PROVE  /\ run[s].seen \subseteq EventsOf(v)'
                          /\ v \in UserIds => due[s][v] \subseteq run[s].seen
        BY <1>3, <3>2, <3>3 DEF SeenIsRecent, UserIds
      <4> QED BY <1>6, <3>1, <3>4 DEF SeenIsRecent
    <3>6. VersionIsNext(s)'
      BY <1>3, <3>2, <3>3 DEF VersionIsNext
    <3>7. Covered(s)'
      <4> SUFFICES ASSUME NEW id \in UserIds, due[s][id] # {}, id \notin run[s].todo
                   PROVE  Served(s, id)'
        BY <1>3, <3>2, <3>4 DEF Covered, UserIds
      <4>1. Served(s, id)
        BY <3>4 DEF Covered
      <4> QED BY <1>12, <4>1
    <3> QED BY <2>1, <3>5, <3>6, <3>7 DEF RunInv
  <2> QED BY <2>2, <2>3
<1>14. AnswersAreOld'
  <2> SUFFICES ASSUME ~overlapped, NEW id \in UserIds, NEW p \in Stored(id)'
               PROVE  request.answered[id] <= p.version
    BY <1>3 DEF AnswersAreOld, UserIds
  <2>1. CASE p \in Stored(id)
    BY <2>1 DEF Inv, AnswersAreOld
  <2>2. CASE id = u /\ p = new
    <3>1. PICK q : q \in Stored(u)
      BY DEF Stored
    <3>2. request.answered[id] <= q.version /\ new.version = q.version + 1
      BY <1>5, <2>2, <3>1 DEF Inv, AnswersAreOld
    <3>3. q.version \in Nat /\ request.answered[id] \in Nat
      BY <3>1, StoredType DEF Inv, TypeOK
    <3> QED BY <2>2, <3>2, <3>3
  <2>3. p \in Stored(id) \/ (id = u /\ p = new)
    BY <1>4
  <2> QED BY <2>1, <2>2, <2>3
<1> QED BY <1>8, <1>9, <1>10, <1>13, <1>14 DEF Inv

-----------------------------------------------------------------------------
(***************************************************************************)
(* Results.                                                                *)
(***************************************************************************)

LEMMA InvStep == Inv /\ [Next]_vars => Inv'
<1> SUFFICES ASSUME Inv, [Next]_vars  PROVE Inv'
  OBVIOUS
<1>1. TypeOK'
  BY TypeStep DEF Inv
<1>2. ASSUME NEW e \in Events, WriteEvent(e)  PROVE Inv'
  BY <1>1, <1>2, QuietStep DEF WriteEvent
<1>3. ASSUME NEW n \in Nodes, GoQuiet(n)  PROVE Inv'
  BY <1>1, <1>3, QuietStep DEF GoQuiet
<1>4. ASSUME NEW r \in Runs,
             \/ Begin(r) \/ ReadHistory(r) \/ ReadCount(r) \/ ReadVersion(r)
             \/ Write(r) \/ Finish(r) \/ Fail(r)
      PROVE  Inv'
  BY <1>1, <1>4, BeginStep, ReadHistoryStep, ReadCountStep, ReadVersionStep, WriteStep, EndStep
<1>5. ASSUME NEW id \in UserIds, Ask(id)  PROVE Inv'
  <2>1. UNCHANGED request.answered
    BY <1>5 DEF Ask, Inv, TypeOK
  <2> QED BY <1>1, <1>5, <2>1, QuietStep DEF Ask, graphVars
<1>6. CASE AskHistory \/ AskCount
  <2>1. UNCHANGED request.answered
    BY <1>6 DEF AskHistory, AskCount, NotAsking, Inv, TypeOK
  <2> QED BY <1>1, <1>6, <2>1, QuietStep DEF AskHistory, AskCount, graphVars
<1>7. CASE AskStored
  <2>1. PICK p \in Stored(request.user) :
           request' = [NotAsking EXCEPT !.answered[request.user] = p.version]
    BY <1>7 DEF AskStored
  <2>2. request'.answered = [request.answered EXCEPT ![request.user] = p.version]
    BY <2>1 DEF NotAsking, Inv, TypeOK
  <2>3. CASE request.user \in UserIds
    BY <1>1, <1>7, <2>1, <2>2, <2>3, QuietStep DEF AskStored, graphVars
  <2>4. CASE request.user \notin UserIds
    <3>1. UNCHANGED request.answered
      BY <2>2, <2>4 DEF Inv, TypeOK
    <3> QED BY <1>1, <1>7, <3>1, QuietStep DEF AskStored, graphVars
  <2> QED BY <2>3, <2>4
<1>8. CASE UNCHANGED vars
  BY <1>1, <1>8, QuietStep DEF vars
<1> QED BY <1>2, <1>3, <1>4, <1>5, <1>6, <1>7, <1>8 DEF Next

LEMMA ProfileInvariant == Spec => []Inv
BY InvInit, InvStep, PTL DEF Spec

\* Which node of a user GET_USER_PROFILE takes never matters, also when runs
\* overlap and nodes appear between their updates (UPDATE_USER_PROFILE).
THEOREM NodesOfAUserAgree == Spec => []NodesAgree
<1>1. Inv => NodesAgree
  BY DEF Inv
<1> QED BY <1>1, ProfileInvariant, PTL

\* A run that ended normally served every user that was active when it began
\* and had enough events (run_once), whatever failed or overlapped before.
THEOREM DoneRunsServed == Spec => []DoneRunsCover
<1>1. Inv => DoneRunsCover
  <2> SUFFICES ASSUME Inv, NEW r \in Runs, NEW id \in UserIds,
                      run[r].stage = "done", due[r][id] # {}
               PROVE  Served(r, id)
    BY DEF DoneRunsCover, Served
  <2> QED BY DEF Inv, RunInv, Covered
<1> QED BY <1>1, ProfileInvariant, PTL

\* Versions go up by one and texts lose no history, unless two runs overlapped
\* (_next_version).
THEOREM VersionsAreConsecutive == Spec => VersionsGoUpByOne
<1> DEFINE A == \A n \in Nodes : profile'[n] # profile[n] /\ ~overlapped' =>
                  \A p \in Stored(IdOf[n]) :
                    profile'[n].version = p.version + 1 /\ p.text \subseteq profile'[n].text
<1>1. Inv /\ [Next]_vars => A
  <2> SUFFICES ASSUME Inv, [Next]_vars, NEW n \in Nodes, profile'[n] # profile[n], ~overlapped',
                      NEW p \in Stored(IdOf[n])
               PROVE  profile'[n].version = p.version + 1 /\ p.text \subseteq profile'[n].text
    OBVIOUS
  <2>1. PICK r \in Runs : Write(r)
    BY DEF Next, vars, graphVars, WriteEvent, GoQuiet, Begin, ReadHistory, ReadCount,
           ReadVersion, Finish, Fail, Ask, AskHistory, AskCount, AskStored
  <2>2. PICK u : u = UserOf(r)
    OBVIOUS
  <2>3. PICK new : new = [version |-> run[r].version, text |-> run[r].seen]
    OBVIOUS
  <2>4. \A m \in Nodes : profile'[m] = IF IdOf[m] = u /\ Exists(m) THEN new ELSE profile[m]
    BY <2>1, <2>2, <2>3, StoredAfterWrite
  <2>5. profile'[n] = new /\ p \in Stored(u)
    BY <2>4
  <2>6. ~overlapped /\ run[r].stage = "write"
    BY <2>1 DEF Write
  <2>7. run[r].version = p.version + 1 /\ p.text \subseteq run[r].seen
    BY <2>2, <2>5, <2>6 DEF Inv, RunInv, SeenIsRecent, VersionIsNext
  <2> QED BY <2>3, <2>5, <2>7
<1>2. Spec => [][A]_vars
  BY <1>1, ProfileInvariant, PTL DEF Spec
<1> QED BY <1>2 DEF VersionsGoUpByOne

\* A client that asks again is never answered an older version, unless runs
\* overlapped (get_user_profile).
THEOREM AnswersAreMonotonic == Spec => AnswersNeverGoBack
<1> DEFINE A == overlapped \/ \A id \in UserIds : request'.answered[id] >= request.answered[id]
<1>1. Inv /\ [Next]_vars => A
  <2> SUFFICES ASSUME Inv, [Next]_vars, ~overlapped, NEW id \in UserIds
               PROVE  request'.answered[id] >= request.answered[id]
    OBVIOUS
  <2>1. request.answered \in [UserIds -> Nat]
    BY DEF Inv, TypeOK
  <2>2. CASE AskStored
    <3>1. PICK p \in Stored(request.user) :
             request' = [NotAsking EXCEPT !.answered[request.user] = p.version]
      BY <2>2 DEF AskStored
    <3>2. request'.answered = [request.answered EXCEPT ![request.user] = p.version]
      BY <3>1 DEF NotAsking, Inv, TypeOK
    <3>3. CASE request.user = id
      <4>1. request.answered[id] <= p.version
        BY <3>1, <3>3 DEF Inv, AnswersAreOld
      <4>2. p.version \in Nat
        BY <3>1, StoredType DEF Inv
      <4> QED BY <2>1, <3>2, <3>3, <4>1, <4>2
    <3>4. CASE request.user # id
      BY <2>1, <3>2, <3>4
    <3> QED BY <3>3, <3>4
  <2>3. CASE ~AskStored
    <3>1. request'.answered = request.answered
      BY <2>3 DEF Next, vars, graphVars, WriteEvent, GoQuiet, Begin, ReadHistory, ReadCount,
                  ReadVersion, Write, Finish, Fail, Ask, AskHistory, AskCount, NotAsking, Inv, TypeOK
    <3> QED BY <2>1, <3>1
  <2> QED BY <2>2, <2>3
<1>2. Spec => [][A]_vars
  BY <1>1, ProfileInvariant, PTL DEF Spec
<1> QED BY <1>2 DEF AnswersNeverGoBack

=============================================================================
