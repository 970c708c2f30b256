\* Refuted, one at a time: comments of the code that its interleavings do not keep.
SPECIFICATION Spec
CONSTANTS
  JoinTask = {}
  HostTask = {}
  UserTask = {u1}
  Command = {"CancelJoin", "Disconnect", "WatchReplay"}
  ConnectTask = {c1}
  Launch = {g1, g2}
  MatchGame = match
  None = None
  Notice = {}
  UpdateCap = 1
  FrameCap = 1
  MaxDrops = 0
CHECK_DEADLOCK FALSE
INVARIANT TerminatedLaunchStaysDown
\* INVARIANT NoPhantomPreparation
\* INVARIANT OneGameAtATime
\* INVARIANT GameAndReplayApart
\* PROPERTY NoGameAfterDisconnect
