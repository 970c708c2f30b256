\* Two joins, one cancel, one launch order: minutes, so not among the routine runs.
SPECIFICATION Spec
CONSTANTS
  JoinTask = {j1, j2}
  HostTask = {}
  UserTask = {u1}
  Command = {"CancelJoin"}
  ConnectTask = {c1}
  Launch = {g1}
  MatchGame = match
  None = None
  Notice = {}
  UpdateCap = 1
  FrameCap = 1
  MaxDrops = 0
SYMMETRY TaskSymmetry
INVARIANTS CalledOffNotSent NoPhantomJoin
CHECK_DEADLOCK FALSE
