CONSTANTS
  a1 = a1
  p1 = p1
  p2 = p2
  Address = {a1}
  Port = {p1, p2}
  EphemeralPort = eph
  Endpoint <- MCEndpoint
  Server = server
  IdSpace = 4
  MsgSpace = 1
  MaxEvents = 1
  MaxMessages = 1
  MaxInFlight = 1
  ServerInput <- MCInput
SPECIFICATION Spec
INVARIANTS
  ClientTypeOK
  StateMatchesPlayer
PROPERTIES
  SessionLasts
