SPECIFICATION Spec
CONSTANTS
  Policy = "BinanceFutures"
  Market = "Futures"
  Price <- MCPrice
  Depth = 0
  ChecksumDepth = 10
  MaxMantissa = 999
  MaxScale = 4
  MaxSeconds = 1800000000
  PriceScale = 1
  QtyScale = 0
  MaxLevels = 2
  Decoder = {"binance"}
  Frames <- MCFrames
  RestBodies <- MCRestBodies
  Epoch <- MCEpoch
  MaxGap = 2
  MaxClock = 7
  MaxLatency = 1
VIEW View
INVARIANTS
  SilentFeedNotServed
