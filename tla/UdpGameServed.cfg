CONSTANTS
  a1 = a1
  p1 = p1
  p2 = p2
  Address = {a1}
  Port = {p1, p2}
  EphemeralPort = eph
  Endpoint <- MCOneEndpoint
  Server = server
  IdSpace = 4
  MsgSpace = 2
  MaxEvents = 2
  MaxMessages = 2
  MaxClientRestarts = 2
  MaxServerRestarts = 1
SPECIFICATION FairSpec
INVARIANT
  OneSessionPerEndpoint
PROPERTIES
  ClientsGetServed
  ClientsComeBack
