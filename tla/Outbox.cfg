SPECIFICATION FairSpec
CONSTANTS
  MaxItems = 2
  Threshold = 3
  MaxResends = 1
  MaxEvents = 1
  MaxLate = 1
  NoPrice = NoPrice
  OtherPrice = OtherPrice
INVARIANTS
  OutboxInv
  RemovedOnlyWhenSent
  SharedPhotosExist
PROPERTIES
  ImplementsDelivery
  EveryItemSettles
CHECK_DEADLOCK FALSE
