\* Two commands or timers at once against failed saves, crashes and failed loads.
SPECIFICATION FairSpec
CONSTANTS
  Task = {t1, t2}
  None = None
  MaxChanges = 2
  MaxMessages = 1
  MaxFaults = 2
INVARIANTS FileCatchesUp
PROPERTIES FileNeverGoesBack ChangesReachDisk
\* Hold here too: TypeOK.
