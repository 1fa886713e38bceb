SPECIFICATION Spec
CONSTANTS
  Price <- MCPrice
  IntMax = 30
  Unit = 10
  Venues <- MCVenues
  Symbols = {"BTC"}
  Instrument <- MCInstrument
  MaxAge = 1
  Staleness = "Enforce"
  ClockAhead <- MCClockAhead
  Offers <- MCOffers
  Depths <- MCDepths
  Wanted <- MCWanted
  StartClock = 1
  MaxClock = 4
INVARIANTS
  WalksExact RankingExact RouteIsBest OnlyTrustedVenues
