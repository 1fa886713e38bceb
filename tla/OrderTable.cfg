SPECIFICATION Spec
CONSTANTS
  Id <- MCId
  Ref <- MCRef
  NoRef = 0
  Mix <- MCMix
  InitialSize = 4
  MaxSize = 16
VIEW View
INVARIANTS
  ProbesEnd
PROPERTIES
  ImplementsIndex
