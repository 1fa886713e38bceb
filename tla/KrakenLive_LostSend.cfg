SPECIFICATION FairSpec
CONSTANTS
  Policy = "StrictIncrement"
  Price <- MCPrice
  Depth = 2
  ChecksumDepth = 1
  VenueBooks <- MCVenueBooks
  MaxInFlight = 2
  MaxDamaged = 2
PROPERTY TakesNewSubscription
