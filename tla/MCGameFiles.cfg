\* Two preparations at once over one file, with crashes, cleaning and releases.
SPECIFICATION Spec
CONSTANTS
  Task = {t1, t2}
  File = {changed}
  NoFile = NoFile
  Changed = {changed}
  MaxVersion = 2
  MaxFaults = 1
SYMMETRY Symmetry
INVARIANT InstallIsExact
\* Hold here too: TypeOK.
