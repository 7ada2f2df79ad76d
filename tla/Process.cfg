CONSTANTS
  Interval = 1
  MaxDelay = 1
  MaxQueue = 1
  SocketErrors = {"transient", "broken", "select", "interrupt"}
  TickResults = {TRUE, FALSE}
  Handler = {h1, h2}
  CloseEvent = {h2}
SPECIFICATION FairSpec
CHECK_DEADLOCK FALSE
INVARIANTS
  ProcessTypeOK
  StopsInTime
  OneTickAfterShutdown
  TicksKeepComing
  HandledInTime
  RunsOnBoundSocket
  SocketsReleased
  OneThreadWakes
PROPERTIES
  EventStopsProcess
  EventsReturn
