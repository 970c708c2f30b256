\* Two launch orders, notices and a hang-up; hang-ups and game exits end.
SPECIFICATION FairSpec
CONSTANTS
  JoinTask = {}
  HostTask = {}
  UserTask = {u1}
  Command = {"Disconnect", "WatchReplay"}
  ConnectTask = {c1}
  Launch = {g1, g2}
  MatchGame = match
  None = None
  Notice = {"Kill"}
  UpdateCap = 1
  FrameCap = 1
  MaxDrops = 0
INVARIANTS NoOrphanGame NoOrphanAdapter InGameIsBacked
PROPERTIES HangUpCompletes GameEndIsNoticed
CHECK_DEADLOCK FALSE
\* Hold here too: TypeOK.
