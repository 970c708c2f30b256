\* Refuted, one at a time: comments of the code that its interleavings do not keep.
SPECIFICATION Spec
CONSTANTS
  Dialer = {d1, d2}
  Hanger = {h1}
  None = None
  MaxBackoffTicks = 2
  MaxAttempts = 2
  MaxFailures = 2
  UpdateCap = 2
  MaxFaults = 2
INVARIANT HungUpStaysHungUp
\* INVARIANT StatusFollowsConnection
\* PROPERTY GivesUpOnlyUnregistered
