SPECIFICATION ReaderSpec
CONSTANTS
  Streams <- MCStreams
  MaxControl = 3
  MediumLen = 4
  LongLen = 5
  MaxMessage = 4
  CompactThreshold = 4
INVARIANTS DeliveredExact CeilingHolds
PROPERTY RefusesIllegal
