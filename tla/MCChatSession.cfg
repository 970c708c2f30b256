\* Channels joined, left, announced and lost, while other people come and go.
SPECIFICATION ChatSpec
CONSTANTS
  Nick = {bob, eve}
  Channel = {c1}
  AutoJoin = {c1}
  UpdateCap = 1
  MaxEvents = 3
INVARIANTS ScreenFollowsSession ScreenFollowsServer WantedIsJoined AnnouncedIsJoined NothingIsMissed
CHECK_DEADLOCK FALSE
SYMMETRY Symmetry
\* Hold here too: ChatTypeOK.
