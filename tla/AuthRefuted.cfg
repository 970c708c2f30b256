\* Refuted, one at a time: comments of the code that its interleavings do not keep.
SPECIFICATION FairSpec
CONSTANTS
  Task = {t1, t2}
  Account = {a1, a2}
  Loop = {l1, l2}
  None = None
INVARIANT OfflineHoldsNoToken
\* INVARIANT TokenIsOfPlayer
\* INVARIANT SignedOutHoldsNoToken
\* INVARIANT SessionKeepsToken
\* PROPERTY LoginEnds
