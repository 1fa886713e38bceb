SPECIFICATION Spec
CONSTANTS
  Policy = "BinanceSpot"
  Market = "Spot"
  Price <- MCPrice
  Depth = 0
  ChecksumDepth = 10
  MaxMantissa = 999
  MaxScale = 4
  MaxSeconds = 1800000000
  PriceScale = 1
  QtyScale = 0
  MaxLevels = 2
  Decoder = {"kraken", "binance", "sbe"}
  Frames <- MCFrames
  RestBodies <- MCRestBodies
  Epoch <- MCEpoch
  MaxGap = 2
  MaxClock = 7
  MaxLatency = 1
VIEW View
INVARIANTS
  DecodedOwn
  DecodedExact
  SilenceNoticed
PROPERTIES
  SpoiledNeverApplied
  StaleOnlyIfSilent
