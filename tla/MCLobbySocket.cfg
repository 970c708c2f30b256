\* A connection with its frames, keepalive, losses, silence and hang-ups.
SPECIFICATION FairSpec
CONSTANTS
  Dialer = {d1}
  Hanger = {h1}
  Frame = {f1, f2}
  None = None
  MaxBackoffTicks = 1
  MaxAttempts = 1
  MaxFailures = 2
  UpdateCap = 1
  FrameCap = 2
  MaxFaults = 3
INVARIANTS LostFramesStayLost
PROPERTIES GivesUpOnlyInVain SilenceIsNoticed HangUpEnds
\* Hold here too: TypeOK OneConnection LiveIsCancellable.
