SPECIFICATION Spec
CONSTANTS
  w1 = w1
  w2 = w2
  s1 = s1
  s2 = s2
  NoFd = NoFd
  NoSid = NoSid
  Fd = {}
  Ws = {w1, w2}
  Sid = {s1, s2}
  MaxChan = 2
  MaxEvents = 1
  WsRequests = {"Attach", "Detach"}
SYMMETRY WsSymmetry
INVARIANTS SharedMatchesTasks StreamOpen
