SPECIFICATION FairSpec
CONSTANTS
  Streams <- MCStreams
  MaxControl = 3
  MediumLen = 4
  LongLen = 8
  MaxMessage = 4
  CompactThreshold = 4
  ReadChunk = 5
  MaxConnects = 2
  MaxSends = 1
INVARIANTS DeliveredExact PongsAnswerPings NothingAfterClose FailureEndsStream BufferBounded
PROPERTY CatchesUp
