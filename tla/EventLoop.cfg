SPECIFICATION FairSpec
CONSTANTS
  s1 = s1
  NoFd = NoFd
  NoSid = NoSid
  Fd = {1, 2, 3, 4, 5}
  Sid = {s1}
  MaxBacklog = 1
  Timeout = 1
INVARIANTS TypeOK NumbersOwned
PROPERTIES EventSparesRunning EstablishedClientKept IdleExitWaits DeadSessionRemoved
