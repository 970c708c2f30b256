\* User, UI effects and watchdog against a line that drops, refuses and gives up.
SPECIFICATION FairSpec
CONSTANTS
  Dialer = {d1, d2}
  Hanger = {h1}
  None = None
  MaxBackoffTicks = 1
  MaxAttempts = 1
  MaxFailures = 2
  UpdateCap = 1
  MaxFaults = 2
INVARIANTS OneConnection GivingUpClosesTheStream
PROPERTIES ImplementsWatchdog ChatComesBack HangUpEnds
\* Hold here too: TypeOK LiveIsCancellable.
