\* Searches, matches that start, are cancelled or forgotten, games that are
\* terminated, and a connection that drops.
SPECIFICATION FairSpec
CONSTANTS
  Queue = {q1, q2}
  Timer = {w1, w2}
  UpdateCap = 2
  MaxMatches = 2
  MaxRequests = 2
  MaxFaults = 1
INVARIANTS SearchIsShown FoundIsWatched CancelledMatchIsStopped
PROPERTIES LateStopsKeepTheMatch FoundIsLeft
CHECK_DEADLOCK FALSE
\* Hold here too: TypeOK.
