SPECIFICATION Spec
CONSTANTS
  Capacity = 2
  Events = 5
INVARIANTS FifoDelivery HighWater
PROPERTIES ChannelSpec BothReturn
CHECK_DEADLOCK FALSE
