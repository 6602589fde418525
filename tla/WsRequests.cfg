SPECIFICATION FairSpec
CONSTANTS
  w1 = w1
  w2 = w2
  s1 = s1
  eterm = eterm
  NoFd = NoFd
  NoSid = NoSid
  Fd = {eterm}
  Ws = {w1, w2}
  Sid = {s1}
  MaxChan = 1
  MaxEvents = 1
  WsRequests = {"Attach", "Detach", "Kill", "Create", "Query", "Shutdown"}
INVARIANTS TypeOK
 
