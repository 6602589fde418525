SPECIFICATION Spec
CONSTANTS
  c1 = c1
  c2 = c2
  s1 = s1
  NoFd = NoFd
  NoSid = NoSid
  Fd = {c1, c2}
  Sid = {s1}
  QBound = 1
  LeftoverBound = 0
  MaxWs = 1
  Requests = {"Attach", "Detach"}
  Faults = {"torn"}
SYMMETRY FdSymmetry
INVARIANTS TypeOK ReaderDiscipline OwnersConnected WaitsOnOwner
PROPERTIES HandoffThroughDaemon ImplementsOwnership
