SPECIFICATION Spec
CONSTANTS
  ChanCap = 2
  MaxEvents = 6
  MaxBatch = 3
  Pings = TRUE
\* The turn ends.
CHECK_DEADLOCK FALSE
PROPERTIES
  ChannelCloses
