SPECIFICATION FairSpec
CONSTANTS
  MaxRequests = 4
  BatchSizes = {1, 2, 3}
  FlightSizes = {1, 2}
INVARIANTS
  TypeOK
  SlotsFull
  SlotsCounted
  NoRequestLost
PROPERTIES
  FifoDispatch
  EveryCallSettles
