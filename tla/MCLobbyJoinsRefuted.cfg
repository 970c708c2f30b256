\* Refuted, one at a time: comments of the code that its interleavings do not keep.
SPECIFICATION Spec
CONSTANTS
  JoinTask = {j1, j2}
  HostTask = {h1}
  UserTask = {u1}
  Command = {"CancelJoin"}
  ConnectTask = {c1}
  Launch = {}
  MatchGame = match
  None = None
  Notice = {}
  UpdateCap = 1
  FrameCap = 1
  MaxDrops = 0
CHECK_DEADLOCK FALSE
INVARIANT CancelledJoinNeverSent
\* INVARIANT JoinIsSingleFlight
\* INVARIANT PreparedIsPrepared
\* INVARIANT HostOnlyPrepared
