SPECIFICATION Spec
CONSTANTS
  w1 = w1
  s1 = s1
  eterm = eterm
  NoFd = NoFd
  NoSid = NoSid
  Fd = {eterm}
  Ws = {w1}
  Sid = {s1}
  MaxChan = 1
  MaxEvents = 1
  WsRequests = {"Attach"}
INVARIANT BatonReturned
