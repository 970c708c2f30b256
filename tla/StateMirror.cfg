\* Losses, lag and failed snapshot commands, on a ring of one slot.
SPECIFICATION FairSpec
CONSTANTS
  Emitter = {t1, t2}
  Event = {e1, e2}
  Capacity = 1
  MaxRevision = 4
  MaxLost = 2
  MaxFailed = 1
INVARIANTS MirrorIsAuthoritative
PROPERTIES ImplementsView EveryEventShown GapHeals
CHECK_DEADLOCK FALSE
\* Hold here too: TypeOK BroadcastInOrder RefetchOnlyAfterLoss GapIsBeingRecovered; NeverRollsBack.
