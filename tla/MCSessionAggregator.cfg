CONSTANTS
  Src = {1}
  Port = {22, 80}
  Timeout = 2
  Recent = 1
  Interval = 2
  FileEnd = 1
  WallStart = 2
  WallEnd = 5
  MaxPackets = 3
SPECIFICATION Spec
CHECK_DEADLOCK FALSE
INVARIANTS NothingForgotten NoOrphanWindows PortVisitsExact
