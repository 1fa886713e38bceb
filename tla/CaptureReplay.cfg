SPECIFICATION CaptureSpec
CONSTANTS
  Policy = "StrictIncrement"
  Price <- MCPrice
  Depth = 2
  ChecksumDepth = 1
  VenueBooks <- MCVenueBooks
  MaxInFlight = 2
  MaxDamaged = 1
  HighestTrackable = 16
  SubBucketMagnitude = 1
  Lead = 1
  Tolerance = 1
  Ladder <- MCLadder
  MinSamples = 3
  Budget = 5
  Bound = 4
  KneePercent = 75
  StopLateness = 2
  Services <- MCServices
  Overshoots <- MCOvershoots
  Arrival <- MCArrival
  MaxRecords = 3
  WarmupShare = 3
INVARIANTS
  LoadedExact
  ReplayAgrees
  ReplayPassIsEarned
  BacklogCharged
  KneeIsSustained
