SPECIFICATION Spec
CONSTANTS
  Frames <- SomeFrames
  Ports <- SomePorts
  NoPort = "none"
  MaxLen = 215
  TcpMod = 16
  RespLens <- ItsLen
  Response <- SomeResponse
  NoSum = NoSum
  NoName = NoName
  PortA = "ens7f0"
  PortB = "ens7f1"
  OwnMac <- SomeOwn
  PeerMac <- SomePeer
  MaxScan = 2
  MaxSpaces = 1
  MaxHostLen = 2
INVARIANTS
  AnswersRequests
