SPECIFICATION Spec
CONSTANTS
  IntMin <- MCIntMin
  IntMax <- MCIntMax
  Slots = 3
  Threshold = 1
  Qty <- MCQty
VIEW View
INVARIANTS
  HintsExact
  ReadsExact
  RebuildIsAmortised
PROPERTIES
  ImplementsMapSide
