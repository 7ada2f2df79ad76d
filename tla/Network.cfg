CONSTANTS
  Block = {b1, b2, b3, b4}
  NoBlock = null
  kNetworkBufferSize = 1
  Contents = {c1, junk}
  Junk = {junk}
  Zeros = zeros
  MsgSpace = 1
  MaxQueued = 2
  Handle = {s1, s2, s3}
  kInvalidSocket = none
  Stranger = stranger
  MaxPending = 1
SPECIFICATION FairSpec
INVARIANTS
  TypeOK
  OneOwner
  NothingLeaks
  BuffersFit
  ContentsStay
  SocketsAreOwned
  PairIsReady
PROPERTY
  DrainReturns
