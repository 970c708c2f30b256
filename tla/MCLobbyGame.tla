---------------------------- MODULE MCLobbyGame -----------------------------
(* LobbyGame with the tasks of each kind interchangeable.                  *)
EXTENDS LobbyGame, TLC

TaskSymmetry == Permutations(JoinTask) \cup Permutations(UserTask)
                \cup Permutations(ConnectTask) \cup Permutations(Launch)
=============================================================================
