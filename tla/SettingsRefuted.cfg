\* Refuted, one at a time: a read marker goes back; a start saves the defaults
\* over the settings, or undoes what was chosen while it lasted.
SPECIFICATION Spec
CONSTANTS
  Task = {t1, t2}
  None = None
  MaxChanges = 2
  MaxMessages = 1
  MaxFaults = 0
PROPERTY ReadStaysRead
\* PROPERTY EarlyChoiceWins
\* INVARIANT OnlyLoadedIsSaved
