CONSTANTS
  a1 = a1
  a2 = a2
  p1 = p1
  p2 = p2
  Address = {a1, a2}
  Port = {p1, p2}
  EphemeralPort = eph
  Endpoint <- MCEndpoint
  Server = server
  IdSpace = 5
  MsgSpace = 3
  MaxEvents = 1
  MaxMessages = 2
  MaxInFlight = 2
  ClientInput <- MCInput
SPECIFICATION Spec
INVARIANTS
  ServerTypeOK
  OneSessionPerEndpoint
  RepliesMatchRegistry
  SentIsBuffered
PROPERTIES
  PlayersAreKept
