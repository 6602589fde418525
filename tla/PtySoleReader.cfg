SPECIFICATION Spec
CONSTANTS
  c1 = c1
  s1 = s1
  NoFd = NoFd
  NoSid = NoSid
  Fd = {c1}
  Sid = {s1}
  QBound = 2
  LeftoverBound = 0
  MaxWs = 1
  Requests = {"Attach", "Detach"}
  Faults = {}
INVARIANT SoleReader
