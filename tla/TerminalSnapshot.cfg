SPECIFICATION Spec
CONSTANTS
  eterm1 = eterm1
  NoFd = NoFd
  Fd = {eterm1}
  ETerm = eterm1
  Cap = 2
  MaxBytes = 2
  MaxStarts = 2
PROPERTY SnapshotCurrent
