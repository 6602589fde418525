SPECIFICATION FairSpec
CONSTANTS
  SockBuf = 8
  MaxPush = 2
  MaxSent = 3
INVARIANTS TypeOK RequestsIntact AnswerFits DescriptorFound
PROPERTY CallReturns
