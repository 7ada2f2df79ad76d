CONSTANTS
  Interval = 1
  MaxDelay = 1
  MaxQueue = 1
  SocketErrors = {}
  TickResults = {TRUE}
  Handler = {h1}
  CloseEvent = {}
SPECIFICATION BusySpec
CHECK_DEADLOCK FALSE
PROPERTIES
  DueTicksAreTaken
