SPECIFICATION Spec
CONSTANTS
  c1 = c1
  s1 = s1
  NoFd = NoFd
  NoSid = NoSid
  Fd = {c1}
  Sid = {s1}
  QBound = 2
  LeftoverBound = 1
  MaxWs = 1
  Requests = {"Attach", "Detach", "Kill", "Create", "Query", "Shutdown"}
  Faults = {"cut", "swallow"}
INVARIANTS IInv AttachedIsServed NeverStuck
PROPERTY RequestKept
