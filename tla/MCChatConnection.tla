-------------------------- MODULE MCChatConnection ---------------------------
(* ChatConnection with interchangeable commands, for its invariants.       *)
EXTENDS ChatConnection, TLC

CommandSymmetry == Permutations(Dialer) \cup Permutations(Hanger)
=============================================================================
