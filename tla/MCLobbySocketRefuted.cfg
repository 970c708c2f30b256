\* Refuted, one at a time: comments of the code that its interleavings do not keep.
SPECIFICATION FairSpec
CONSTANTS
  Dialer = {d1}
  Hanger = {h1}
  Frame = {f1}
  None = None
  MaxBackoffTicks = 1
  MaxAttempts = 1
  MaxFailures = 2
  UpdateCap = 1
  FrameCap = 1
  MaxFaults = 2
INVARIANT BackoffFramesNotReplayed
\* PROPERTY GivesUpAfterVainAttempts
\* PROPERTY LobbyComesBack
\* PROPERTY WaitingFramesOutliveTheSocket
