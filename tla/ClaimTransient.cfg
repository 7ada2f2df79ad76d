CONSTANTS
  Interval = 2
  MaxDelay = 0
  MaxQueue = 1
  SocketErrors = {"transient"}
  TickResults = {TRUE}
  Handler = {h1}
  CloseEvent = {}
SPECIFICATION ProcessSpec
CHECK_DEADLOCK FALSE
PROPERTIES
  TransientErrorsIgnored
