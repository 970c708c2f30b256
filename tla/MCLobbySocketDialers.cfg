\* Two Connects that race, without liveness.
SPECIFICATION Spec
CONSTANTS
  Dialer = {d1, d2}
  Hanger = {h1}
  Frame = {f1}
  None = None
  MaxBackoffTicks = 1
  MaxAttempts = 1
  MaxFailures = 2
  UpdateCap = 1
  FrameCap = 1
  MaxFaults = 2
INVARIANTS OneConnection LiveIsCancellable LostFramesStayLost
PROPERTY GivesUpOnlyInVain
SYMMETRY CommandSymmetry
