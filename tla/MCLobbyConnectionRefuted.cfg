\* Refuted, one at a time: comments of the code that its interleavings do not keep.
SPECIFICATION Spec
CONSTANTS
  JoinTask = {j1}
  HostTask = {}
  UserTask = {u1}
  Command = {"Disconnect"}
  ConnectTask = {c1, c2}
  Launch = {}
  MatchGame = match
  None = None
  Notice = {}
  UpdateCap = 1
  FrameCap = 1
  MaxDrops = 1
CHECK_DEADLOCK FALSE
INVARIANT FlightCanBeReleased
\* INVARIANT StatusFollowsConnection
