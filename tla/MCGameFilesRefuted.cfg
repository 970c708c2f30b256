\* Refuted, one at a time: a replay is prepared exactly; a live install is, beside a replay's.
SPECIFICATION Spec
CONSTANTS
  Task = {t1, t2}
  File = {kept, changed}
  NoFile = NoFile
  Changed = {changed}
  MaxVersion = 2
  MaxFaults = 0
INVARIANT ReplayIsExact
\* INVARIANT LiveIsExact
