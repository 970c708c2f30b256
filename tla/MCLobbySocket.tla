--------------------------- MODULE MCLobbySocket ----------------------------
(* LobbySocket with interchangeable commands: sound for the properties of  *)
(* states and steps, and used by the run that checks nothing else.         *)
EXTENDS LobbySocket, TLC

CommandSymmetry == Permutations(Dialer) \cup Permutations(Hanger)
=============================================================================
