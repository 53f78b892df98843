SPECIFICATION Spec
CONSTANTS
  MaxItems = 2
  Threshold = 5
  MaxResends = 3
  MaxEvents = 0
  MaxLate = 1
  NoPrice = NoPrice
  OtherPrice = OtherPrice
INVARIANTS
  SentQuoteIsStored
CHECK_DEADLOCK FALSE
