\* Commands of the login screen and the settings against the provider's answers.
SPECIFICATION FairSpec
CONSTANTS
  Task = {t1, t2}
  Account = {a1}
  Loop = {l1, l2}
  None = None
INVARIANTS SignedInHoldsToken OneRefreshLoop SessionIsRenewed
PROPERTIES LoginSettles
\* Hold here too: TypeOK.
