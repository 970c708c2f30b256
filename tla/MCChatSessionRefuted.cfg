\* Refuted, one at a time: comments and tests of the code, and the roster on screen.
SPECIFICATION ChatSpec
CONSTANTS
  Nick = {bob, eve}
  Channel = {c1}
  AutoJoin = {c1}
  UpdateCap = 1
  MaxEvents = 3
CHECK_DEADLOCK FALSE
SYMMETRY Symmetry
INVARIANT OpenIsJoined
\* INVARIANT NoMessageTwice
\* INVARIANT RosterIsExact
\* INVARIANT JoinedIsWanted
