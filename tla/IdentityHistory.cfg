SPECIFICATION Spec
CONSTANTS
  NoId = NoId
  Users <- ThreeAndOne
  NativeOf <- MCNativeOf
  TypeOf <- MCTypeOf
  Normal <- MCNormal
  Events <- OneMore
  ActorOf <- MCActorOf
  DeclaredOf <- NothingDeclared
INVARIANTS
  LinkedShareCanonical
  CountedOnce
  HistoryIsComplete
  HistoryIsOnePerson
