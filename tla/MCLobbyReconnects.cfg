\* The joins run with a second Connect in place of the drop; not a routine run.
SPECIFICATION Spec
CONSTANTS
  JoinTask = {j1}
  HostTask = {h1}
  UserTask = {u1}
  Command = {"CancelJoin", "DeclineModReplacement", "TerminateGame", "Disconnect"}
  ConnectTask = {c1, c2}
  Launch = {}
  MatchGame = match
  None = None
  Notice = {}
  UpdateCap = 1
  FrameCap = 1
  MaxDrops = 0
SYMMETRY TaskSymmetry
INVARIANTS CalledOffNotSent OneUpdateLoop NoPhantomJoin
CHECK_DEADLOCK FALSE
