SPECIFICATION FairSpec
CONSTANTS
  c1 = c1
  c2 = c2
  s1 = s1
  NoFd = NoFd
  NoSid = NoSid
  Fd = {c1, c2}
  Sid = {s1}
  QBound = 1
  LeftoverBound = 0
  MaxWs = 0
  Requests = {"Attach"}
  Faults = {"torn"}
PROPERTIES LostOwnerReplaced TakeoverEnds
