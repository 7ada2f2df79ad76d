CONSTANTS
  a1 = a1
  p1 = p1
  p2 = p2
  Address = {a1}
  Port = {p1, p2}
  EphemeralPort = eph
  Endpoint <- MCTwoEndpoints
  Server = server
  IdSpace = 4
  MsgSpace = 1
  MaxEvents = 1
  MaxMessages = 1
  MaxClientRestarts = 1
  MaxServerRestarts = 0
SPECIFICATION Spec
INVARIANTS
  TypeOK
  SessionAgreement
  NoPhantomPlayers
PROPERTIES
  ImplementsService
