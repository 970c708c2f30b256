\* Refuted, one at a time: what comments and screens say of the search and the match.
SPECIFICATION Spec
CONSTANTS
  Queue = {q1, q2}
  Timer = {w1, w2}
  UpdateCap = 2
  MaxMatches = 2
  MaxRequests = 2
  MaxFaults = 1
CHECK_DEADLOCK FALSE
PROPERTY TimerGivesUpItsOwnMatch
\* INVARIANT SearchShownIsReal
\* INVARIANT LockHasReason
\* INVARIANT MatchIsShown
\* INVARIANT SearchIsAlwaysShown
\* INVARIANT FoundIsAlwaysWatched
\* INVARIANT NoCancelledMatchRuns
