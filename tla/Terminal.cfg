SPECIFICATION FairSpec
CONSTANTS
  eterm1 = eterm1
  NoFd = NoFd
  Fd = {eterm1}
  ETerm = eterm1
  Cap = 2
  MaxBytes = 3
  MaxStarts = 2
INVARIANTS TypeOK NoByteLost RingIsHistory ParserFollows WsStream
PROPERTY OutputDrained
