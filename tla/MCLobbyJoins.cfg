\* A join and a host request, every command, a connection that drops and is redialled.
SPECIFICATION Spec
CONSTANTS
  JoinTask = {j1}
  HostTask = {h1}
  UserTask = {u1}
  Command = {"CancelJoin", "DeclineModReplacement", "TerminateGame", "Disconnect"}
  ConnectTask = {c1}
  Launch = {}
  MatchGame = match
  None = None
  Notice = {}
  UpdateCap = 1
  FrameCap = 1
  MaxDrops = 1
SYMMETRY TaskSymmetry
INVARIANTS CalledOffNotSent NoPhantomJoin
CHECK_DEADLOCK FALSE
