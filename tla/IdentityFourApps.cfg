SPECIFICATION Spec
CONSTANTS
  NoId = NoId
  Users <- FourApps
  NativeOf <- MCNativeOf
  TypeOf <- MCTypeOf
  Normal <- MCNormal
  Events <- OneEach
  ActorOf <- MCActorOf
  DeclaredOf <- NothingDeclared
INVARIANTS
  LinkedShareCanonical
