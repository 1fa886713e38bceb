SPECIFICATION Spec
CONSTANTS
  Id <- MCId
  Key <- MCKey
  Qty <- MCQty
VIEW View
INVARIANTS
  ArenaConsistent
PROPERTIES
  ImplementsQueues
  PriorityIsKept
