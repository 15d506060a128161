SPECIFICATION Spec
CONSTANTS
  r1 = r1
  r2 = r2
  Runs = {r1, r2}
  Nodes <- MCNodes
  IdOf <- MCIdOf
  Events <- MCEvents
  ActorOf <- MCActorOf
  MinEvents = 2
INVARIANTS
  NodesAgree
  DoneRunsCover
PROPERTIES
  VersionsGoUpByOne
  AnswersNeverGoBack
