SPECIFICATION Spec
CONSTANTS
  Policy = "BinanceFutures"
  Price <- MCPrice
  Depth = 0
  ChecksumDepth = 10
  MaxId = 5
  VenueBook <- MCSparseBook
INVARIANTS
  SyncedBookExact
PROPERTIES
  NeverBackwards
  FrozenUntilSnapshot
  GapIsReal
